---- MODULE Spec2Model ----
(***************************************************************************)
(* Workflow run store of the CDS engine (engine/api/workflow/dao_run.go):  *)
(* the tables workflow_run, workflow_node_run and workflow_run_tag, the    *)
(* per-workflow run-number sequence, the row lock taken by                 *)
(* loadAndLockRunByID, and the clients that create, load and update runs.  *)
(***************************************************************************)
EXTENDS Integers, Sequences, FiniteSets, TLC

\* ---------------------------------------------------------------- bounds
MaxAllocs == 3        \* run numbers handed out over one behaviour
MaxRuns == 2          \* runs created where callers compete for their locks
MaxDataRuns == 1      \* runs created where one caller mutates their data
MaxNodeRuns == 3      \* node runs stored at a time
MaxWrites == 1        \* writes of one transaction before it completes
MaxClock == 2         \* readings of the clock over one behaviour
MaxInfos == 2         \* info entries a run collects through AdvanceNode
NumClients == 3       \* concurrent callers of CreateRun
NumWorkers == 2       \* concurrent callers that load, lock and mutate runs

Clients == 1..NumClients
Workers == 1..NumWorkers
Workflows == {1, 2}
Nodes == {1, 2}
Defs == {1, 2}
RunIDs == 1..MaxAllocs

StatusBuilding == "Building"
StatusSuccess == "Success"
StatusFail == "Fail"
StatusStopped == "Stopped"
Statuses == {StatusBuilding, StatusSuccess, StatusFail, StatusStopped}
TerminalStatuses == {StatusSuccess, StatusFail, StatusStopped}

\* ------------------------------------------------------- workflows (sdk)
WorkflowName(w) == "HelloPipeline"
Projects == {1, 2}
ProjectKey(p) == IF p = 1 THEN "ITCLIPIPPRJ" ELSE "OTHERPRJ"
ProjectOf(w) == w
ProjectKeyOf(w) == ProjectKey(ProjectOf(w))
ProjectKeys == {ProjectKeyOf(w) : w \in Workflows}
WorkflowNames == {WorkflowName(w) : w \in Workflows}

\* The zero value of sdk.Workflow and a workflow definition with content d.
ZeroWorkflow == [ID |-> 0, Name |-> "", ProjectKey |-> "", Def |-> 0]
WorkflowDef(w, d) ==
    [ID |-> w, Name |-> WorkflowName(w), ProjectKey |-> ProjectKeyOf(w), Def |-> d]

\* []sdk.WorkflowRunInfo: a nil slice, or a slice of entries [IsError].
NilInfos == [null |-> TRUE, elems |-> <<>>]
InfoList(s) == [null |-> FALSE, elems |-> s]
Info(e) == [IsError |-> e]

\* The zero value of sdk.WorkflowRun (what a failed load hands back is nil).
ZeroRun ==
    [ID |-> 0, ProjectID |-> 0, WorkflowID |-> 0, Number |-> 0, Start |-> 0,
     LastModified |-> 0, Status |-> "",
     Workflow |-> ZeroWorkflow, Infos |-> NilInfos, Tags |-> <<>>,
     WorkflowNodeRuns |-> <<>>]

\* ------------------------------------------------------------ sequences
RECURSIVE SeqMax(_, _)
SeqMax(s, least) ==
    IF s = <<>> THEN least
    ELSE LET m == SeqMax(Tail(s), least)
         IN  IF Head(s) > m THEN Head(s) ELSE m

\* ----------------------------------------------------- Serializer (json)
\* The fields of sdk.Workflow and of sdk.WorkflowRunInfo, each a member of
\* the JSON object of a value (Def stands for the nodes, joins and hooks of
\* the definition).
WorkflowFields == {"ID", "Name", "ProjectKey", "Def"}
InfoFields == {"IsError"}
ZeroInfo == [IsError |-> FALSE]

\* A JSON object as the JSONB column keeps it: the names of its members
\* (keys) and the value of each member that is a field (obj; a field that is
\* no member being left at its zero value there).
JSONObject(keys, obj) == [keys |-> keys, obj |-> obj]

\* A blob column: SQL NULL (valid = FALSE) or a JSON text of some kind. An
\* array holds the objects of its elements.
NullBlob == [valid |-> FALSE, kind |-> "", keys |-> {}, obj |-> ZeroWorkflow, arr |-> <<>>]
JSONNull == [valid |-> TRUE, kind |-> "null", keys |-> {}, obj |-> ZeroWorkflow, arr |-> <<>>]

\* A JSON text that is neither null, nor an object, nor an array.
JSONString ==
    [valid |-> TRUE, kind |-> "string", keys |-> {}, obj |-> ZeroWorkflow, arr |-> <<>>]

\* The JSON text of an object and of an array of objects.
ObjectBlob(keys, obj) ==
    [valid |-> TRUE, kind |-> "object", keys |-> keys, obj |-> obj, arr |-> <<>>]
ArrayBlob(arr) ==
    [valid |-> TRUE, kind |-> "array", keys |-> {}, obj |-> ZeroWorkflow, arr |-> arr]

\* json.Marshal(r.Workflow): a struct is always an object, with one member
\* for each of its fields.
MarshalWorkflow(w) == ObjectBlob(WorkflowFields, w)

\* json.Marshal(r.Infos): a nil slice is null, any other slice an array of
\* the objects of its elements.
MarshalInfos(infos) ==
    IF infos.null THEN JSONNull
    ELSE ArrayBlob([i \in 1..Len(infos.elems) |->
                       JSONObject(InfoFields, infos.elems[i])])

\* json.Unmarshal of an object into a struct that holds v: a member named
\* as field f sets the field, a field that is no member keeps what v holds,
\* and a member that is no field is skipped.
Member(o, v, f) == IF f \in o.keys THEN o.obj[f] ELSE v[f]
decodeWorkflow(o, v) ==
    [ID |-> Member(o, v, "ID"), Name |-> Member(o, v, "Name"),
     ProjectKey |-> Member(o, v, "ProjectKey"), Def |-> Member(o, v, "Def")]
decodeInfo(o, v) == [IsError |-> Member(o, v, "IsError")]

\* json.Unmarshal into w := sdk.Workflow{}: null leaves the zero value.
UnmarshalWorkflowNullFails(b) ==
    IF b.kind = "object" THEN [err |-> "", val |-> decodeWorkflow(b, ZeroWorkflow)]
    ELSE [err |-> "SerializationError", val |-> ZeroWorkflow]
UnmarshalWorkflow(b) ==
    IF b.kind = "object" THEN [err |-> "", val |-> decodeWorkflow(b, ZeroWorkflow)]
    ELSE IF b.kind = "null" THEN [err |-> "", val |-> ZeroWorkflow]
    ELSE [err |-> "SerializationError", val |-> ZeroWorkflow]

\* json.Unmarshal into i := []sdk.WorkflowRunInfo{}: an array sets the slice
\* to its elements, each decoded into a zero value; null sets it to nil.
decodeInfos(arr) == [i \in 1..Len(arr) |-> decodeInfo(arr[i], ZeroInfo)]
UnmarshalInfosNullKeepsSlice(b) ==
    IF b.kind = "array" THEN [err |-> "", val |-> InfoList(decodeInfos(b.arr))]
    ELSE IF b.kind = "null" THEN [err |-> "", val |-> InfoList(<<>>)]
    ELSE [err |-> "SerializationError", val |-> NilInfos]
UnmarshalInfos(b) ==
    IF b.kind = "array" THEN [err |-> "", val |-> InfoList(decodeInfos(b.arr))]
    ELSE IF b.kind = "null" THEN [err |-> "", val |-> NilInfos]
    ELSE [err |-> "SerializationError", val |-> NilInfos]

\* ------------------------------------------------------ RunStore (tables)
\* The database: the rows of workflow_run (the id of a row is its position),
\* of workflow_node_run and of workflow_run_tag, in insertion order.
EmptyDB == [runs |-> <<>>, nodeRuns |-> <<>>, tags |-> <<>>]

\* Run(*w) as gorp writes it: the structured columns of workflow_run.
RunColumns(w, row) ==
    [row EXCEPT !.id = w.ID, !.project_id = w.ProjectID,
                !.workflow_id = w.WorkflowID,
                !.num = w.Number, !.start = w.Start,
                !.last_modified = w.LastModified, !.status = w.Status]

\* sdk.WorkflowRun(*runDB) as gorp reads it: the blobs and the slices are
\* not columns of the struct and stay at their zero values.
RunOfRow(row) ==
    [ZeroRun EXCEPT !.ID = row.id, !.ProjectID = row.project_id,
                    !.WorkflowID = row.workflow_id,
                    !.Number = row.num, !.Start = row.start,
                    !.LastModified = row.last_modified,
                    !.Status = row.status]

RunTag(runID, t) == [workflow_run_id |-> runID, tag |-> t.Tag, value |-> t.Value]
WorkflowRunTag(row) ==
    [WorkflowRunID |-> row.workflow_run_id, Tag |-> row.tag, Value |-> row.value]

\* r.Tags[i].WorkflowRunID = r.ID, for every tag of the run.
OwnTags(r) ==
    [i \in 1..Len(r.Tags) |-> [r.Tags[i] EXCEPT !.WorkflowRunID = r.ID]]

\* delete from workflow_run_tag where workflow_run_id = $1
deleteTagsNoDelete(tagRows, runID) == tagRows
deleteTags(tagRows, runID) ==
    SelectSeq(tagRows, LAMBDA t : t.workflow_run_id # runID)

\* db.Insert(tags...): one row per element of the list.
insertTags(tagRows, new) == tagRows \o new

updateTags(D, r) ==
    LET kept == deleteTags(D.tags, r.ID)
        tags == [i \in 1..Len(r.Tags) |-> RunTag(r.ID, r.Tags[i])]
    IN  [D EXCEPT !.tags = IF Len(tags) > 0 THEN insertTags(kept, tags) ELSE kept]

\* db.Exec("update workflow_run set workflow = $3, infos = $2 where id = $1",
\* args...): $n is the n-th argument.
updateBlobsArgsInOrder(D, args) ==
    [D EXCEPT !.runs = [k \in 1..Len(D.runs) |->
        IF D.runs[k].id = args[1]
        THEN [D.runs[k] EXCEPT !.workflow = args[2], !.infos = args[3]]
        ELSE D.runs[k]]]
updateBlobs(D, args) ==
    [D EXCEPT !.runs = [k \in 1..Len(D.runs) |->
        IF D.runs[k].id = args[1]
        THEN [D.runs[k] EXCEPT !.workflow = args[3], !.infos = args[2]]
        ELSE D.runs[k]]]

\* Run.PostInsert (and Run.PostUpdate, which calls it): the blobs, handed to
\* the statement as r.ID, i, w, then the tags.
PostInsert(D, r) ==
    LET w == MarshalWorkflow(r.Workflow)
        i == MarshalInfos(r.Infos)
    IN  updateTags(updateBlobs(D, <<r.ID, i, w>>), r)

PostUpdate(D, r) == PostInsert(D, r)

\* insertWorkflowRun: the row gets the next id, then the PostInsert hook runs.
insertWorkflowRun(D, w) ==
    LET id == Len(D.runs) + 1
        runDB == [w EXCEPT !.ID = id]
        row == RunColumns(runDB, [id |-> id, project_id |-> 0,
                                  workflow_id |-> 0, num |-> 0,
                                  start |-> 0, last_modified |-> 0,
                                  status |-> "",
                                  workflow |-> NullBlob, infos |-> NullBlob])
        D1 == [D EXCEPT !.runs = Append(D.runs, row)]
    IN  [db |-> PostInsert(D1, runDB), run |-> [runDB EXCEPT !.Tags = OwnTags(runDB)]]

\* The status updateWorkflowRun writes: Fail as soon as one info is an error.
statusToWriteAsGiven(w) == w.Status
statusToWrite(w) ==
    IF \E i \in 1..Len(w.Infos.elems) : w.Infos.elems[i].IsError
    THEN StatusFail ELSE w.Status

\* updateWorkflowRun at time now: w.LastModified = time.Now(), the status,
\* then the structured columns and the PostUpdate hook.
updateWorkflowRun(D, w, now) ==
    LET runDB == [w EXCEPT !.LastModified = now, !.Status = statusToWrite(w)]
        D1 == [D EXCEPT !.runs = [k \in 1..Len(D.runs) |->
                  IF D.runs[k].id = runDB.ID
                  THEN RunColumns(runDB, D.runs[k]) ELSE D.runs[k]]]
    IN  [db |-> PostUpdate(D1, runDB), run |-> [runDB EXCEPT !.Tags = OwnTags(runDB)]]

\* UPDATE workflow_run SET status = $1, last_modified = $2 WHERE id = $3,
\* with status, time.Now() and ID, at time now.
UpdateWorkflowRunStatusEveryRun(D, ID, status, now) ==
    [D EXCEPT !.runs = [k \in 1..Len(D.runs) |->
        [D.runs[k] EXCEPT !.status = status, !.last_modified = now]]]
UpdateWorkflowRunStatus(D, ID, status, now) ==
    [D EXCEPT !.runs = [k \in 1..Len(D.runs) |->
        IF D.runs[k].id = ID
        THEN [D.runs[k] EXCEPT !.status = status, !.last_modified = now]
        ELSE D.runs[k]]]

\* ------------------------------------------------------- RunStore (loads)
\* Run.PostGet: the blobs of the row of r, decoded into r when they are set.
PostGet(D, r) ==
    LET res == D.runs[r.ID]
        w == UnmarshalWorkflow(res.workflow)
        i == UnmarshalInfos(res.infos)
    IN  IF res.workflow.valid /\ w.err # "" THEN [err |-> w.err, run |-> r]
        ELSE IF res.infos.valid /\ i.err # "" THEN [err |-> i.err, run |-> r]
        ELSE [err |-> "",
              run |-> [r EXCEPT
                         !.Workflow = IF res.workflow.valid THEN w.val ELSE @,
                         !.Infos = IF res.infos.valid THEN i.val ELSE @]]

WorkflowNodeRun(n) ==
    [WorkflowRunID |-> n.workflow_run_id,
     WorkflowNodeID |-> n.workflow_node_id, SubNumber |-> n.sub_num,
     Status |-> n.status]

\* ... ORDER BY workflow_node_run.sub_num DESC (rows of equal sub_num keep
\* their table order).
RECURSIVE OrderBySubNumDesc(_)
OrderBySubNumDesc(rows) ==
    IF rows = <<>> THEN <<>>
    ELSE LET m == SeqMax([i \in 1..Len(rows) |-> rows[i].sub_num], -1)
         IN  SelectSeq(rows, LAMBDA n : n.sub_num = m)
             \o OrderBySubNumDesc(SelectSeq(rows, LAMBDA n : n.sub_num # m))

\* The less function handed to sort.Slice.
nodeRunLessAscending(a, b) == a.SubNumber < b.SubNumber
nodeRunLess(a, b) == a.SubNumber > b.SubNumber

\* One pass of the insertion sort: x, put after the sorted s, moves left as
\* long as it is less than its left neighbour.
RECURSIVE insertNodeRun(_, _)
insertNodeRun(s, x) ==
    IF s = <<>> THEN <<x>>
    ELSE IF nodeRunLess(x, s[Len(s)])
         THEN Append(insertNodeRun(SubSeq(s, 1, Len(s) - 1), x), s[Len(s)])
         ELSE Append(s, x)

\* sort.Slice(wr.WorkflowNodeRuns[k], less): an insertion sort for a slice of
\* fewer than 12 elements, which MaxNodeRuns keeps it to: elements that are
\* not less than one another keep their order.
RECURSIVE sortSlice(_)
sortSlice(s) ==
    IF s = <<>> THEN <<>>
    ELSE insertNodeRun(sortSlice(SubSeq(s, 1, Len(s) - 1)), s[Len(s)])

loadTagsByRunID(D, runID) ==
    LET dbTags == SelectSeq(D.tags, LAMBDA t : t.workflow_run_id = runID)
    IN  [i \in 1..Len(dbTags) |-> WorkflowRunTag(dbTags[i])]

\* db.SelectOne(runDB, query, args...) without its hook: the columns of the
\* one row the query selects.
selectOne(rows) ==
    IF Len(rows) = 0 THEN [err |-> "NotFound", run |-> ZeroRun]
    ELSE IF Len(rows) > 1 THEN [err |-> "Error", run |-> ZeroRun]
    ELSE [err |-> "", run |-> RunOfRow(rows[1])]

\* The error of a query: a storage failure when it is the one that fails.
NoError == ""
StorageError == "StorageError"
QueryError(fail, q) == IF fail = q THEN StorageError ELSE NoError

\* sdk.WrapError(err, ...): the error, with context; no error stays no error.
WrapError(err) == IF err = NoError THEN NoError ELSE err

\* select workflow_node_run.* ... where workflow_run_id = $1 ORDER BY
\* workflow_node_run.sub_num DESC: the rows of dbNodeRuns.
selectNodeRuns(D, wr) ==
    OrderBySubNumDesc(SelectSeq(D.nodeRuns, LAMBDA n : n.workflow_run_id = wr.ID))

\* The error of the node-run select. The driver's "no rows" error is left
\* aside by loadRun, which goes on with the node runs read so far: none.
ErrNoRows == "ErrNoRows"
selectNodeRunsError(fail) ==
    IF fail = "select node runs: no rows" THEN ErrNoRows
    ELSE QueryError(fail, "select node runs")

\* n.PostGet(db), called on every node run read. Of a node run the run,
\* the node, the sub-number and the status are columns the select has read:
\* the call leaves them as read. It is handed the database and can fail.
NodeRunPostGet(D, n) == n
NodeRunPostGetError(fail) == QueryError(fail, "node run postget")

\* wr.WorkflowNodeRuns[wnr.WorkflowNodeID] = append(..., wnr), the map being
\* made on the first node run.
appendNodeRunKeepsLatestOnly(wnrs, wnr) ==
    IF wnr.WorkflowNodeID \in DOMAIN wnrs THEN wnrs
    ELSE [k \in DOMAIN wnrs \cup {wnr.WorkflowNodeID} |->
             IF k = wnr.WorkflowNodeID THEN <<wnr>> ELSE wnrs[k]]
appendNodeRun(wnrs, wnr) ==
    [k \in DOMAIN wnrs \cup {wnr.WorkflowNodeID} |->
        IF k # wnr.WorkflowNodeID THEN wnrs[k]
        ELSE IF k \in DOMAIN wnrs THEN Append(wnrs[k], wnr) ELSE <<wnr>>]

\* One turn of the loop over dbNodeRuns: the hook of n, then n converted
\* and appended to the history of its node.
addNodeRun(D, wr, n) ==
    [wr EXCEPT !.WorkflowNodeRuns =
        appendNodeRun(@, WorkflowNodeRun(NodeRunPostGet(D, n)))]

\* The loop over the keys of wr.WorkflowNodeRuns: every history sorted.
sortNodeRuns(wr) ==
    [wr EXCEPT !.WorkflowNodeRuns = [k \in DOMAIN @ |-> sortSlice(@[k])]]

RECURSIVE addNodeRuns(_, _, _)
addNodeRuns(D, wr, dbNodeRuns) ==
    IF dbNodeRuns = <<>> THEN wr
    ELSE addNodeRuns(D, addNodeRun(D, wr, Head(dbNodeRuns)), Tail(dbNodeRuns))

\* The node runs of wr as loadRun selects, groups by node and sorts them,
\* all on the same tables D.
loadNodeRuns(D, wr) ==
    sortNodeRuns(addNodeRuns(D, wr, selectNodeRuns(D, wr)))

\* loadRun on the rows its query selects, all its statements reading the
\* same tables D: the row, its blobs (the PostGet hook of db.SelectOne), the
\* node runs, the tags.
loadRun(D, rows) ==
    LET one == selectOne(rows)
        got == PostGet(D, one.run)
        wr == loadNodeRuns(D, got.run)
    IN  IF one.err # "" THEN one
        ELSE IF got.err # "" THEN [err |-> got.err, run |-> ZeroRun]
        ELSE [err |-> "", run |-> [wr EXCEPT !.Tags = loadTagsByRunID(D, wr.ID)]]

\* The joins of the selectors: join project on workflow_run.project_id =
\* project.id, join workflow on workflow_run.workflow_id = workflow.id. Each
\* is the set of the values a run row joins to: a row whose project_id is the
\* id of no project, or whose workflow_id is the id of no workflow, joins
\* nothing and is selected whatever the key or the name asked for.
RowProjectKey(row) ==
    {ProjectKey(p) : p \in {q \in Projects : q = row.project_id}}
RowWorkflowName(row) ==
    {WorkflowName(w) : w \in {v \in Workflows : v = row.workflow_id}}

\* JOIN workflow ON workflow_run.workflow_id = workflow.id JOIN project ON
\* workflow.project_id = project.id: the keys of the project of the workflow
\* of a run row; none when the row has no workflow.
WorkflowProjectKey(row) ==
    {ProjectKey(p) : p \in {ProjectOf(w) : w \in {v \in Workflows : v = row.workflow_id}}
                               \cap Projects}

\* The rows the query of each selector selects on tables D.
\* ... order by workflow_run.num desc limit 1
LoadLastRunQuery(D, projectkey, workflowname) ==
    LET rows == SelectSeq(D.runs, LAMBDA r :
                    projectkey \in RowProjectKey(r) /\ workflowname \in RowWorkflowName(r))
        top == SeqMax([i \in 1..Len(rows) |-> rows[i].num], -1)
        last == SelectSeq(rows, LAMBDA r : r.num = top)
    IN  IF last = <<>> THEN <<>> ELSE <<last[1]>>

LoadRunQuery(D, projectkey, workflowname, number) ==
    SelectSeq(D.runs, LAMBDA r :
        /\ projectkey \in RowProjectKey(r)
        /\ workflowname \in RowWorkflowName(r)
        /\ r.num = number)

LoadRunByIDAndProjectKeyQuery(D, projectkey, id) ==
    SelectSeq(D.runs, LAMBDA r : projectkey \in RowProjectKey(r) /\ r.id = id)

LoadRunByIDQuery(D, id) == SelectSeq(D.runs, LAMBDA r : r.id = id)

\* The selectors, when nothing is committed between their statements.
LoadLastRun(D, projectkey, workflowname) ==
    loadRun(D, LoadLastRunQuery(D, projectkey, workflowname))

LoadRun(D, projectkey, workflowname, number) ==
    loadRun(D, LoadRunQuery(D, projectkey, workflowname, number))

LoadRunByIDAndProjectKey(D, projectkey, id) ==
    loadRun(D, LoadRunByIDAndProjectKeyQuery(D, projectkey, id))

LoadRunByID(D, id) == loadRun(D, LoadRunByIDQuery(D, id))

\* ------------------------------------------------ RunStore (LoadRuns, errors)
\* ... order by workflow_run.start desc (rows of equal start keep their
\* table order).
RECURSIVE OrderByStartAsc(_)
OrderByStartAsc(rows) ==
    IF rows = <<>> THEN <<>>
    ELSE LET m == SeqMax([i \in 1..Len(rows) |-> rows[i].start], -1)
         IN  OrderByStartAsc(SelectSeq(rows, LAMBDA r : r.start # m))
             \o SelectSeq(rows, LAMBDA r : r.start = m)
RECURSIVE OrderByStartDesc(_)
OrderByStartDesc(rows) ==
    IF rows = <<>> THEN <<>>
    ELSE LET m == SeqMax([i \in 1..Len(rows) |-> rows[i].start], -1)
         IN  SelectSeq(rows, LAMBDA r : r.start = m)
             \o OrderByStartDesc(SelectSeq(rows, LAMBDA r : r.start # m))

\* ... limit $3 offset $4
LimitOffset(rows, limit, offset) ==
    LET last == IF offset + limit < Len(rows) THEN offset + limit ELSE Len(rows)
    IN  IF offset + 1 > last THEN <<>> ELSE SubSeq(rows, offset + 1, last)

loadRunTags(D, run) ==
    LET dbRunTags == SelectSeq(D.tags, LAMBDA t : t.workflow_run_id = run.ID)
    IN  [run EXCEPT !.Tags = [i \in 1..Len(dbRunTags) |-> WorkflowRunTag(dbRunTags[i])]]

\* The rows the queries of LoadRuns select on tables D.
RunsOfWorkflow(D, projectkey, workflowname) ==
    SelectSeq(D.runs, LAMBDA r :
        projectkey \in RowProjectKey(r) /\ workflowname \in RowWorkflowName(r))

\* What LoadRuns returns when nothing is to be returned.
NoRuns(err) == [runs |-> <<>>, offset |-> 0, limit |-> 0, count |-> 0, err |-> err]

\* The error updateTags returns when query fail fails.
updateTagsError(r, fail) ==
    IF QueryError(fail, "delete tags") # NoError
    THEN WrapError(QueryError(fail, "delete tags"))
    ELSE IF Len(r.Tags) > 0 /\ QueryError(fail, "insert tags") # NoError
    THEN WrapError(QueryError(fail, "insert tags"))
    ELSE NoError

\* The error the PostInsert / PostUpdate hook returns.
PostInsertError(r, fail) ==
    IF QueryError(fail, "update blobs") # NoError
    THEN WrapError(QueryError(fail, "update blobs"))
    ELSE WrapError(updateTagsError(r, fail))

\* The error insertWorkflowRun returns: that of db.Insert, which runs the hook.
insertWorkflowRunError(w, fail) ==
    LET err == IF QueryError(fail, "insert run") # NoError
               THEN QueryError(fail, "insert run") ELSE PostInsertError(w, fail)
    IN  WrapError(err)

\* The error updateWorkflowRun returns: that of db.Update, which runs the hook.
updateWorkflowRunError(w, fail) ==
    LET err == IF QueryError(fail, "update run") # NoError
               THEN QueryError(fail, "update run") ELSE PostInsertError(w, fail)
    IN  WrapError(err)

\* The loop of updateTags over r.Tags is reached when the statement of
\* db.Insert or db.Update (first), the update of the blobs and the delete of
\* the tags have gone through.
tagsLoopReached(fail, first) == fail \notin {first, "update blobs", "delete tags"}

\* insertWorkflowRun while query fail fails: its error, the tables, and *w
\* when it returns. The loop of updateTags writes the id of the new row into
\* the tags of r, which are those of *w (Run(*w) copies the slice header
\* only); w.ID is set once db.Insert has returned without an error.
insertWorkflowRunWith(D, w, fail) ==
    LET ins == insertWorkflowRun(D, w)
        err == insertWorkflowRunError(w, fail)
    IN  [err |-> err,
         db |-> IF err = NoError THEN ins.db ELSE D,
         run |-> IF err = NoError THEN ins.run
                 ELSE IF tagsLoopReached(fail, "insert run")
                 THEN [w EXCEPT !.Tags = ins.run.Tags]
                 ELSE w]

\* updateWorkflowRun while query fail fails: its error, the tables, and *w
\* when it returns. The status is set to Fail in *w before anything is
\* written, as is the time; the loop of updateTags writes r.ID into the tags
\* of *w.
updateWorkflowRunWith(D, w, fail, now) ==
    LET upd == updateWorkflowRun(D, w, now)
        err == updateWorkflowRunError(w, fail)
    IN  [err |-> err,
         db |-> IF err = NoError THEN upd.db ELSE D,
         run |-> IF err = NoError \/ tagsLoopReached(fail, "update run")
                 THEN upd.run
                 ELSE [w EXCEPT !.LastModified = now, !.Status = statusToWrite(w)]]

\* A tag value as the text SQL and strings.Split see: its characters, of
\* which only the separator ',' is told apart from the rest.
TagValueText(v) == IF v = "a,b" THEN <<"a", ",", "b">> ELSE <<v>>

\* The place of a value in the order of "order by value".
ValueRank(v) ==
    CASE v = "a" -> 1 [] v = "a,b" -> 2 [] v = "b" -> 3
      [] v = "dev" -> 4 [] v = "main" -> 5 [] OTHER -> 6

\* SELECT distinct ... order by value, for the values of one tag.
RECURSIVE OrderByValue(_)
OrderByValue(S) ==
    IF S = {} THEN <<>>
    ELSE LET v == CHOOSE x \in S : \A y \in S : ValueRank(x) <= ValueRank(y)
         IN  <<v>> \o OrderByValue(S \ {v})

\* STRING_AGG(tags.value, ','): the values joined by the separator, in the
\* order the subquery hands them over.
RECURSIVE STRING_AGG(_)
STRING_AGG(vals) ==
    IF vals = <<>> THEN <<>>
    ELSE IF Len(vals) = 1 THEN TagValueText(vals[1])
    ELSE TagValueText(vals[1]) \o <<",">> \o STRING_AGG(Tail(vals))

\* strings.Split(r.Values, ","): the pieces between the separators.
RECURSIVE stringsSplit(_)
stringsSplit(text) ==
    IF \A i \in 1..Len(text) : text[i] # "," THEN <<text>>
    ELSE LET i == CHOOSE j \in 1..Len(text) :
                      text[j] = "," /\ \A k \in 1..(j - 1) : text[k] # ","
         IN  <<SubSeq(text, 1, i - 1)>> \o stringsSplit(SubSeq(text, i + 1, Len(text)))

\* A piece as a Go string again.
StringOf(piece) == IF piece = <<>> THEN "" ELSE piece[1]

\* GetTagsAndValue: tag -> the values of that tag on the runs of a workflow.
GetTagsAndValue(D, key, name) ==
    LET rows == SelectSeq(D.tags, LAMBDA t :
                    \E k \in 1..Len(D.runs) :
                        /\ D.runs[k].id = t.workflow_run_id
                        /\ key \in WorkflowProjectKey(D.runs[k])
                        /\ name \in RowWorkflowName(D.runs[k]))
        pairs == {<<rows[i].tag, rows[i].value>> : i \in 1..Len(rows)}
        res == [t \in {p[1] : p \in pairs} |->
                   STRING_AGG(OrderByValue({p[2] : p \in {q \in pairs : q[1] = t}}))]
    IN  [t \in DOMAIN res |->
            LET parts == stringsSplit(res[t])
            IN  [i \in 1..Len(parts) |-> StringOf(parts[i])]]

\* The locking clause of the query of loadAndLockRunByID.
LockClauseBlocking == "for update"
LockClause == "for update nowait"

\* What the clause does on a row: the lock is granted when the row is free or
\* held by the asking transaction; otherwise NOWAIT fails at once and a plain
\* FOR UPDATE waits for the holder.
RowLock(holder, c) ==
    IF holder \in {0, c} THEN "granted"
    ELSE IF LockClause = "for update nowait" THEN "LockConflict"
    ELSE "blocked"

loadAndLockRunByIDUnlocked(D, locks, c, id) == LoadRunByID(D, id)
loadAndLockRunByID(D, locks, c, id) ==
    LET rows == LoadRunByIDQuery(D, id)
        got == IF Len(rows) = 0 THEN "granted" ELSE RowLock(locks[id], c)
    IN  IF got = "granted" THEN loadRun(D, rows)
        ELSE [err |-> got, run |-> ZeroRun]

\* select workflow_sequences_nextval($1): the per-workflow counter, advanced
\* by one and read in one atomic statement.
workflow_sequences_nextval(sequences, id) ==
    [sequences EXCEPT ![id] = @ + 1]

\* nextRunNumber: the new state of the sequences and the number returned.
nextRunNumberPeek(sequences, w) ==
    [sequences |-> sequences, i |-> sequences[w.ID] + 1]
nextRunNumberOneKey(sequences, w) ==
    LET next == workflow_sequences_nextval(sequences, 1)
    IN  [sequences |-> next, i |-> next[1]]
nextRunNumber(sequences, w) ==
    LET next == workflow_sequences_nextval(sequences, w.ID)
    IN  [sequences |-> next, i |-> next[w.ID]]

\* ------------------------------------------------------- RunEngine rules
\* The status of a run, recomputed from its infos and node runs.
RecomputeStatus(infos, nodeRunStatuses, stop) ==
    IF \E i \in 1..Len(infos.elems) : infos.elems[i].IsError THEN StatusFail
    ELSE IF \E i \in 1..Len(nodeRunStatuses) :
                nodeRunStatuses[i] \notin TerminalStatuses THEN StatusBuilding
    ELSE IF \E i \in 1..Len(nodeRunStatuses) :
                nodeRunStatuses[i] = StatusFail THEN StatusFail
    ELSE IF stop THEN StatusStopped
    ELSE StatusSuccess

\* The sub-number of a new attempt of a node: 0, or the highest so far plus one.
NextSubNumber(nrs) ==
    IF nrs = <<>> THEN 0
    ELSE SeqMax([i \in 1..Len(nrs) |-> nrs[i].SubNumber], -1) + 1

AppendInfos(infos, entries) ==
    IF entries = <<>> THEN infos ELSE InfoList(infos.elems \o entries)

\* ------------------------------------------------------------------ state
VARIABLES
    db,          \* the committed tables
    sequences,   \* workflow id -> current value of its run-number sequence
    locks,       \* run id -> the client whose transaction holds the row lock, or 0
    live,        \* workflow id -> content of the live workflow definition
    allocs,      \* history: the run numbers handed out, in order
    clock,       \* the time time.Now() reads
    cl           \* client -> what it is doing, its in-memory run, its open transaction

vars == <<db, sequences, locks, live, allocs, clock, cl>>

ZeroRow == [id |-> 0, project_id |-> 0, workflow_id |-> 0, num |-> 0,
            start |-> 0, last_modified |-> 0, status |-> "",
            workflow |-> NullBlob, infos |-> NullBlob]
NoPend == [has |-> FALSE, row |-> ZeroRow, tags |-> <<>>, nrs |-> <<>>]

\* A client outside any transaction, after operation op ended with res. Of a
\* read in progress, seen keeps the tables that were committed when its row
\* query ran, for the properties to compare with.
Idle(op, res, run) ==
    [pc |-> "idle", op |-> op, arg |-> "", res |-> res, run |-> run, rid |-> 0,
     writes |-> 0, pend |-> NoPend, dbNodeRuns |-> <<>>, seen |-> EmptyDB]

\* The tables as the transaction of a client sees them: the committed ones,
\* with its own uncommitted writes to the run it has locked.
Overlay(D, rid, pend) ==
    IF ~pend.has THEN D
    ELSE [runs |-> [k \in 1..Len(D.runs) |->
                       IF D.runs[k].id = rid THEN pend.row ELSE D.runs[k]],
          nodeRuns |-> SelectSeq(D.nodeRuns, LAMBDA n : n.workflow_run_id # rid)
                       \o pend.nrs,
          tags |-> SelectSeq(D.tags, LAMBDA t : t.workflow_run_id # rid)
                   \o pend.tags]

Written(D, rid) ==
    [has |-> TRUE, row |-> D.runs[rid],
     nrs |-> SelectSeq(D.nodeRuns, LAMBDA n : n.workflow_run_id = rid),
     tags |-> SelectSeq(D.tags, LAMBDA t : t.workflow_run_id = rid)]

View(c) == Overlay(db, cl[c].rid, cl[c].pend)

Init ==
    /\ db = EmptyDB
    /\ sequences = [w \in Workflows |-> 0]
    /\ locks = [id \in RunIDs |-> 0]
    /\ live = [w \in Workflows |-> 1]
    /\ allocs = <<>>
    /\ clock = 1
    /\ cl = [c \in Clients |-> Idle("", "", ZeroRun)]

\* ---------------------------------------------------------------- actions
\* Time passes: the next reading of time.Now() is a later one.
Tick ==
    /\ clock < MaxClock
    /\ clock' = clock + 1
    /\ UNCHANGED <<db, sequences, locks, live, allocs, cl>>

\* A collaborator edits the live definition of a workflow.
EditWorkflow(w, d) ==
    /\ d # live[w]
    /\ live' = [live EXCEPT ![w] = d]
    /\ UNCHANGED <<clock, db, sequences, locks, allocs, cl>>

\* CreateRun, first step: the run number is allocated, the definition handed
\* to CreateRun is copied into the run under construction and its start time
\* is set to now (the clock ticks with every trigger).
CreateRunAllocate(c, w) ==
    /\ cl[c].pc = "idle"
    /\ Len(allocs) < MaxAllocs
    /\ LET def == WorkflowDef(w, live[w])
           n == nextRunNumber(sequences, def)
           run == [ZeroRun EXCEPT !.ProjectID = ProjectOf(w),
                                  !.WorkflowID = w, !.Number = n.i,
                                  !.Start = Len(allocs) + 1,
                                  !.Status = StatusBuilding, !.Workflow = def]
       IN  /\ sequences' = n.sequences
           /\ allocs' = Append(allocs, [workflow |-> w, num |-> n.i])
           /\ cl' = [cl EXCEPT ![c] =
                        [Idle("CreateRun", "", run) EXCEPT !.pc = "numbered"]]
    /\ UNCHANGED <<clock, db, locks, live>>

\* CreateRun, second step: the run is inserted with the tags of its trigger.
CreateRunInsert(c, tags) ==
    /\ cl[c].pc = "numbered"
    /\ LET ins == insertWorkflowRun(db, [cl[c].run EXCEPT !.Tags = tags])
       IN  /\ db' = ins.db
           /\ cl' = [cl EXCEPT ![c] = Idle("", "", ZeroRun)]
    /\ UNCHANGED <<clock, sequences, locks, live, allocs>>

\* CreateRun fails after the allocation: the number is lost.
CreateRunFail(c) ==
    /\ cl[c].pc = "numbered"
    /\ cl' = [cl EXCEPT ![c] = Idle("", "", ZeroRun)]
    /\ UNCHANGED <<clock, db, sequences, locks, live, allocs>>

\* loadAndLockRunByID in a new transaction of c (or, for a blocking clause,
\* the statement of a waiting transaction going through). The row stays
\* locked when a later statement of loadRun fails: the transaction of c is
\* still open, until its caller rolls it back.
LoadAndLock(c, id) ==
    /\ cl[c].pc \in {"idle", "waiting"}
    /\ cl[c].pc = "waiting" => (id = cl[c].rid /\ locks[id] = 0)
    /\ LET got == loadAndLockRunByID(db, locks, c, id)
           unlocked == {"NotFound", "LockConflict", "blocked"}
       IN  /\ cl' = [cl EXCEPT ![c] =
                 IF got.err = ""
                 THEN [Idle("loadAndLockRunByID", "ok", got.run)
                           EXCEPT !.pc = "locked", !.rid = id]
                 ELSE IF got.err = "blocked"
                 THEN [Idle("loadAndLockRunByID", "", ZeroRun)
                           EXCEPT !.pc = "waiting", !.rid = id]
                 ELSE IF got.err \in unlocked
                 THEN Idle("loadAndLockRunByID", got.err, ZeroRun)
                 ELSE [Idle("loadAndLockRunByID", got.err, ZeroRun)
                           EXCEPT !.pc = "failed", !.rid = id]]
           /\ locks' = IF got.err \notin unlocked
                       THEN [locks EXCEPT ![id] = c] ELSE locks
    /\ UNCHANGED <<clock, db, sequences, live, allocs>>

\* AdvanceNode on the run c has locked: a terminal run is refused and the
\* transaction ends; otherwise the node run is added (or the running attempt
\* updated), the infos appended, the status recomputed and the run persisted.
AdvanceNode(c, node, status, entries, stop) ==
    /\ cl[c].pc = "locked"
    /\ cl[c].writes < MaxWrites
    /\ LET r == cl[c].run
           nrs == IF node \in DOMAIN r.WorkflowNodeRuns
                  THEN r.WorkflowNodeRuns[node] ELSE <<>>
           isNew == nrs = <<>> \/ nrs[1].Status \in TerminalStatuses
           V == View(c)
           newRow == [workflow_run_id |-> r.ID,
                      workflow_node_id |-> node, sub_num |-> NextSubNumber(nrs),
                      status |-> status]
           V1 == IF isNew THEN [V EXCEPT !.nodeRuns = Append(@, newRow)]
                 ELSE [V EXCEPT !.nodeRuns = [k \in 1..Len(V.nodeRuns) |->
                          IF /\ V.nodeRuns[k].workflow_run_id = r.ID
                             /\ V.nodeRuns[k].workflow_node_id = node
                             /\ V.nodeRuns[k].sub_num = nrs[1].SubNumber
                          THEN [V.nodeRuns[k] EXCEPT !.status = status]
                          ELSE V.nodeRuns[k]]]
           nrs1 == IF isNew THEN <<WorkflowNodeRun(newRow)>> \o nrs
                   ELSE <<[nrs[1] EXCEPT !.Status = status]>> \o Tail(nrs)
           wnrs1 == [k \in DOMAIN r.WorkflowNodeRuns \cup {node} |->
                        IF k = node THEN nrs1 ELSE r.WorkflowNodeRuns[k]]
           mine == SelectSeq(V1.nodeRuns, LAMBDA n : n.workflow_run_id = r.ID)
           infos1 == AppendInfos(r.Infos, entries)
           st == RecomputeStatus(infos1, [i \in 1..Len(mine) |-> mine[i].status], stop)
           upd == updateWorkflowRun(V1, [r EXCEPT !.Status = st, !.Infos = infos1,
                                                  !.WorkflowNodeRuns = wnrs1],
                                    clock)
       IN  IF r.Status \in TerminalStatuses
           THEN /\ cl' = [cl EXCEPT ![c] = Idle("AdvanceNode", "ValidationError", ZeroRun)]
                /\ locks' = [locks EXCEPT ![cl[c].rid] = 0]
           ELSE /\ isNew => Len(V.nodeRuns) < MaxNodeRuns
                /\ Len(infos1.elems) <= MaxInfos
                /\ cl' = [cl EXCEPT ![c].op = "AdvanceNode", ![c].res = "ok",
                                    ![c].arg = "",
                                    ![c].run = upd.run, ![c].writes = @ + 1,
                                    ![c].pend = Written(upd.db, r.ID)]
                /\ locks' = locks
    /\ UNCHANGED <<clock, db, sequences, live, allocs>>

\* updateWorkflowRun on the run c has locked, handed the in-memory run w of
\* its caller.
UpdateRunAs(c, w, arg) ==
    /\ cl[c].pc = "locked"
    /\ cl[c].writes < MaxWrites
    /\ LET upd == updateWorkflowRun(View(c), w, clock)
       IN  cl' = [cl EXCEPT ![c].op = "updateWorkflowRun", ![c].res = "ok",
                            ![c].arg = arg,
                            ![c].run = upd.run, ![c].writes = @ + 1,
                            ![c].pend = Written(upd.db, cl[c].rid)]
    /\ UNCHANGED <<clock, db, sequences, locks, live, allocs>>

\* The same, with the status, infos, tags and workflow content its caller
\* has put in the in-memory run.
UpdateRun(c, status, infos, tags, def) ==
    UpdateRunAs(c, [cl[c].run EXCEPT !.Status = status, !.Infos = infos,
                                     !.Tags = tags, !.Workflow.Def = def],
                status)

\* UpdateWorkflowRunStatus: by the holder of the row lock inside its
\* transaction, or on its own when no transaction holds the row (the UPDATE
\* of a row another transaction has locked waits for it).
SetStatus(c, id, status) ==
    /\ cl[c].pc \in {"idle", "locked"}
    /\ IF cl[c].pc = "idle" THEN locks[id] = 0
       ELSE cl[c].rid = id /\ cl[c].writes < MaxWrites
    /\ IF cl[c].pc = "idle"
       THEN /\ db' = UpdateWorkflowRunStatus(db, id, status, clock)
            /\ cl' = [cl EXCEPT ![c] = Idle("", "", ZeroRun)]
       ELSE /\ db' = db
            /\ cl' = [cl EXCEPT ![c].op = "UpdateWorkflowRunStatus", ![c].res = "ok",
                                ![c].arg = "",
                                ![c].writes = @ + 1,
                                ![c].pend = Written(
                                    UpdateWorkflowRunStatus(View(c), id, status, clock),
                                    id)]
    /\ UNCHANGED <<clock, sequences, locks, live, allocs>>

\* The transaction of c commits: its writes become the committed state and
\* its row lock is released.
CommitKeepsLock(c) ==
    /\ cl[c].pc = "locked"
    /\ db' = View(c)
    /\ cl' = [cl EXCEPT ![c] = Idle("", "", ZeroRun)]
    /\ UNCHANGED <<clock, sequences, locks, live, allocs>>
Commit(c) ==
    /\ cl[c].pc = "locked"
    /\ db' = View(c)
    /\ locks' = [locks EXCEPT ![cl[c].rid] = 0]
    /\ cl' = [cl EXCEPT ![c] = Idle("", "", ZeroRun)]
    /\ UNCHANGED <<clock, sequences, live, allocs>>

\* The transaction of c rolls back: its writes are dropped, its lock released.
Rollback(c) ==
    /\ cl[c].pc \in {"locked", "failed"}
    /\ locks' = [locks EXCEPT ![cl[c].rid] = 0]
    /\ cl' = [cl EXCEPT ![c] = Idle("", "", ZeroRun)]
    /\ UNCHANGED <<clock, db, sequences, live, allocs>>

\* ------------------------------------------------------------------ loads
\* A selector outside any transaction. Its statements are run one by one on
\* the connection, each on what is committed when it runs: the select of the
\* row, the select of its blobs (the PostGet hook), the select of its node
\* runs, the select of its tags. fail is the statement that fails.
\* First statement: the row the query of selector op selects.
SelectRun(c, op, rows, fail) ==
    /\ cl[c].pc = "idle"
    /\ LET err == QueryError(fail, "select run")
           one == selectOne(rows)
       IN  cl' = [cl EXCEPT ![c] =
                     IF err # NoError
                     THEN [Idle(op, WrapError(err), ZeroRun) EXCEPT !.arg = fail]
                     ELSE IF one.err # ""
                     THEN [Idle(op, one.err, ZeroRun) EXCEPT !.arg = fail]
                     ELSE [Idle(op, "", one.run)
                               EXCEPT !.pc = "selected", !.arg = fail,
                                      !.seen = db]]
    /\ UNCHANGED <<clock, db, sequences, locks, live, allocs>>

DoLoadLastRun(c, projectkey, workflowname) ==
    SelectRun(c, "LoadLastRun", LoadLastRunQuery(db, projectkey, workflowname), "")

DoLoadRun(c, projectkey, workflowname, number) ==
    SelectRun(c, "LoadRun", LoadRunQuery(db, projectkey, workflowname, number), "")

DoLoadRunByIDAndProjectKey(c, projectkey, id) ==
    SelectRun(c, "LoadRunByIDAndProjectKey",
              LoadRunByIDAndProjectKeyQuery(db, projectkey, id), "")

DoLoadRunByIDForUpdate(c, id) ==
    IF id \in 1..Len(db.runs) /\ RowLock(locks[id], c) # "granted"
    THEN /\ cl[c].pc = "idle"
         /\ cl' = [cl EXCEPT ![c] = Idle("LoadRunByID", RowLock(locks[id], c), ZeroRun)]
         /\ UNCHANGED <<clock, db, sequences, locks, live, allocs>>
    ELSE SelectRun(c, "LoadRunByID", LoadRunByIDQuery(db, id), "")
DoLoadRunByID(c, id) ==
    SelectRun(c, "LoadRunByID", LoadRunByIDQuery(db, id), "")

\* LoadRunByID while statement fail fails.
DoLoadRunByIDWith(c, id, fail) ==
    SelectRun(c, "LoadRunByID", LoadRunByIDQuery(db, id), fail)

\* Second statement: the PostGet hook of db.SelectOne reads the blobs.
DoLoadPostGet(c) ==
    /\ cl[c].pc = "selected"
    /\ LET err == QueryError(cl[c].arg, "select blobs")
           got == PostGet(db, cl[c].run)
           failed(e) == [Idle(cl[c].op, e, ZeroRun) EXCEPT !.arg = cl[c].arg]
       IN  cl' = [cl EXCEPT ![c] =
                     IF err # NoError THEN failed(WrapError(err))
                     ELSE IF got.err # "" THEN failed(got.err)
                     ELSE [cl[c] EXCEPT !.pc = "hooked", !.run = got.run]]
    /\ UNCHANGED <<clock, db, sequences, locks, live, allocs>>

\* Third statement: the select of the node runs. An error ends the load,
\* but for "no rows", after which the load goes on without a node run.
DoLoadNodeRuns(c) ==
    /\ cl[c].pc = "hooked"
    /\ LET err == selectNodeRunsError(cl[c].arg)
           dbNodeRuns == IF err = ErrNoRows THEN <<>>
                         ELSE selectNodeRuns(db, cl[c].run)
       IN  cl' = [cl EXCEPT ![c] =
                     IF err \notin {NoError, ErrNoRows}
                     THEN [Idle(cl[c].op, WrapError(err), ZeroRun)
                               EXCEPT !.arg = cl[c].arg]
                     ELSE IF dbNodeRuns = <<>>
                     THEN [cl[c] EXCEPT !.pc = "noderuns"]
                     ELSE [cl[c] EXCEPT !.pc = "nodehooks",
                                        !.dbNodeRuns = dbNodeRuns]]
    /\ UNCHANGED <<clock, db, sequences, locks, live, allocs>>

\* One turn of the loop over the node runs read: the hook of the next one
\* is run on the database, on what is committed now, and the node run is
\* added to the run; an error of the hook ends the load. After the last
\* turn the histories are sorted.
DoLoadNodeRunPostGet(c) ==
    /\ cl[c].pc = "nodehooks"
    /\ LET err == NodeRunPostGetError(cl[c].arg)
           rest == Tail(cl[c].dbNodeRuns)
           wr == addNodeRun(db, cl[c].run, Head(cl[c].dbNodeRuns))
       IN  cl' = [cl EXCEPT ![c] =
                     IF err # NoError
                     THEN [Idle(cl[c].op, WrapError(err), ZeroRun)
                               EXCEPT !.arg = cl[c].arg]
                     ELSE IF rest # <<>>
                     THEN [cl[c] EXCEPT !.run = wr, !.dbNodeRuns = rest]
                     ELSE [cl[c] EXCEPT !.pc = "noderuns", !.run = sortNodeRuns(wr),
                                        !.dbNodeRuns = <<>>]]
    /\ UNCHANGED <<clock, db, sequences, locks, live, allocs>>

\* Fourth statement: the tags; loadRun returns.
DoLoadTags(c) ==
    /\ cl[c].pc = "noderuns"
    /\ LET errT == QueryError(cl[c].arg, "select tags")
           wr == [cl[c].run EXCEPT !.Tags = loadTagsByRunID(db, cl[c].run.ID)]
       IN  cl' = [cl EXCEPT ![c] =
                     IF errT # NoError
                     THEN [Idle(cl[c].op, WrapError(errT), ZeroRun)
                               EXCEPT !.arg = cl[c].arg]
                     ELSE [Idle(cl[c].op, "ok", wr) EXCEPT !.arg = cl[c].arg]]
    /\ UNCHANGED <<clock, db, sequences, locks, live, allocs>>

\* GetTagsAndValue, outside any transaction: it reads the committed tables.
DoGetTagsAndValue(c, key, name) ==
    /\ cl[c].pc = "idle"
    /\ cl' = [cl EXCEPT ![c] =
                 [Idle("GetTagsAndValue", "ok", GetTagsAndValue(db, key, name))
                      EXCEPT !.arg = key]]
    /\ UNCHANGED <<clock, db, sequences, locks, live, allocs>>

\* LoadRuns, outside any transaction: what it returns to c.
LoadRunsReturn(c, q, got) ==
    [Idle("LoadRuns", IF got.err = NoError THEN "ok" ELSE got.err,
          [call |-> q, got |-> got]) EXCEPT !.arg = cl[c].arg]

\* LoadRuns, first query: the count, on what is committed at that moment;
\* without a run the call returns at once. fail is the query that fails.
\* The call keeps, for the properties to compare with, the tables that were
\* committed when its count query ran and, later, when its page query ran.
DoLoadRunsCount(c, projectkey, workflowname, offset, limit, fail) ==
    /\ cl[c].pc = "idle"
    /\ LET errc == QueryError(fail, "count")
           count == Len(RunsOfWorkflow(db, projectkey, workflowname))
           q == [projectkey |-> projectkey, workflowname |-> workflowname,
                 offset |-> offset, limit |-> limit, count |-> count,
                 runs |-> <<>>, wruns |-> <<>>, seen |-> db]
           ret(got) == [Idle("LoadRuns", IF got.err = NoError THEN "ok" ELSE got.err,
                             [call |-> q, got |-> got]) EXCEPT !.arg = fail]
       IN  cl' = [cl EXCEPT ![c] =
                     IF errc # NoError THEN ret(NoRuns(WrapError(errc)))
                     ELSE IF count = 0 THEN ret(NoRuns(NoError))
                     ELSE [Idle("LoadRuns", "", q)
                               EXCEPT !.pc = "counted", !.arg = fail]]
    /\ UNCHANGED <<clock, db, sequences, locks, live, allocs>>

\* LoadRuns, second query: the page, on what is committed now. When the
\* query fails the error wrapped is errc, that of the count query: none.
DoLoadRunsPage(c) ==
    /\ cl[c].pc = "counted"
    /\ LET q == cl[c].run
           errc == NoError
           err == QueryError(cl[c].arg, "page")
           runs == LimitOffset(OrderByStartDesc(
                       RunsOfWorkflow(db, q.projectkey, q.workflowname)),
                       q.limit, q.offset)
       IN  cl' = [cl EXCEPT ![c] =
                     IF err # NoError THEN LoadRunsReturn(c, q, NoRuns(WrapError(errc)))
                     ELSE IF runs = <<>>
                     THEN LoadRunsReturn(c, q,
                              [runs |-> <<>>, offset |-> q.offset, limit |-> q.limit,
                               count |-> q.count, err |-> NoError])
                     ELSE [cl[c] EXCEPT !.pc = "paged", !.run.runs = runs,
                                        !.seen = db]]
    /\ UNCHANGED <<clock, db, sequences, locks, live, allocs>>

\* LoadRuns, one turn of its loop: the tag query of the next run of the
\* page, on what is committed now; after the last one LoadRuns returns.
DoLoadRunsTags(c) ==
    /\ cl[c].pc = "paged"
    /\ LET q == cl[c].run
           i == Len(q.wruns) + 1
           err == QueryError(cl[c].arg, "tags")
           wr == loadRunTags(db, RunOfRow(q.runs[i]))
           wruns == Append(q.wruns, wr)
       IN  cl' = [cl EXCEPT ![c] =
                     IF err # NoError THEN LoadRunsReturn(c, q, NoRuns(WrapError(err)))
                     ELSE IF i = Len(q.runs)
                     THEN LoadRunsReturn(c, q,
                              [runs |-> wruns, offset |-> q.offset, limit |-> q.limit,
                               count |-> q.count, err |-> NoError])
                     ELSE [cl[c] EXCEPT !.run.wruns = wruns]]
    /\ UNCHANGED <<clock, db, sequences, locks, live, allocs>>

\* insertWorkflowRun by CreateRun while query fail fails: on an error nothing
\* is stored. The caller is left with *w as the call has changed it.
CreateRunInsertWith(c, tags, fail) ==
    /\ cl[c].pc = "numbered"
    /\ LET w == [cl[c].run EXCEPT !.Tags = tags]
           ins == insertWorkflowRunWith(db, w, fail)
       IN  /\ db' = ins.db
           /\ cl' = [cl EXCEPT ![c] =
                        [Idle("insertWorkflowRun",
                              IF ins.err = NoError THEN "ok" ELSE ins.err, ins.run)
                             EXCEPT !.arg = fail]]
    /\ UNCHANGED <<clock, sequences, locks, live, allocs>>

\* updateWorkflowRun on the run c has locked while query fail fails: on an
\* error the transaction stays open until the caller rolls it back. The
\* caller is left with *w as the call has changed it.
UpdateRunWith(c, tags, fail) ==
    /\ cl[c].pc = "locked"
    /\ cl[c].writes < MaxWrites
    /\ LET w == [cl[c].run EXCEPT !.Tags = tags]
           upd == updateWorkflowRunWith(View(c), w, fail, clock)
       IN  IF upd.err = NoError
           THEN cl' = [cl EXCEPT ![c].op = "updateWorkflowRun", ![c].res = "ok",
                                    ![c].arg = fail,
                                    ![c].run = upd.run, ![c].writes = @ + 1,
                                    ![c].pend = Written(upd.db, cl[c].rid)]
           ELSE cl' = [cl EXCEPT ![c] =
                          [Idle("updateWorkflowRun", upd.err, upd.run)
                               EXCEPT !.arg = fail, !.pc = "failed",
                                      !.rid = cl[c].rid]]
    /\ UNCHANGED <<clock, db, sequences, locks, live, allocs>>

\* --------------------------------------------------------- specifications
Tag(k, v) == [WorkflowRunID |-> 0, Tag |-> k, Value |-> v]

\* Run numbering: concurrent CreateRun calls on two workflows.
NextNumbering ==
    \/ \E c \in Clients, w \in Workflows : CreateRunAllocate(c, w)
    \/ \E c \in Clients : CreateRunInsert(c, <<>>)
    \/ \E c \in Clients : CreateRunFail(c)

SpecNumbering == Init /\ [][NextNumbering]_vars

\* CreateRun, as long as fewer than limit runs were triggered.
TriggerRun(c, w, limit) ==
    /\ Len(allocs) < limit
    /\ CreateRunAllocate(c, w)

\* Locking: concurrent mutations (lock, write, commit or roll back) and
\* direct status updates on the same runs.
NextLocking ==
    \/ \E c \in Workers : TriggerRun(c, 1, MaxRuns)
    \/ \E c \in Workers : CreateRunInsert(c, <<>>)
    \/ \E c \in Workers, id \in 1..MaxRuns : LoadAndLock(c, id)
    \/ \E c \in Workers :
            UpdateRun(c, StatusSuccess, cl[c].run.Infos, cl[c].run.Tags,
                      cl[c].run.Workflow.Def)
    \/ \E c \in Workers, id \in 1..MaxRuns : SetStatus(c, id, StatusStopped)
    \/ \E c \in Workers : Commit(c)
    \/ \E c \in Workers : Rollback(c)

SpecLocking == Init /\ [][NextLocking]_vars

\* Status: one caller creates runs, advances their nodes, persists them with
\* any status and infos, and sets their status directly.
Solo == {1}
InfosInputs ==
    {NilInfos, InfoList(<<Info(FALSE)>>), InfoList(<<Info(FALSE), Info(TRUE)>>)}

NextStatus ==
    \/ \E c \in Solo : TriggerRun(c, 1, MaxDataRuns)
    \/ \E c \in Solo : CreateRunInsert(c, <<>>)
    \/ \E c \in Solo, id \in 1..MaxDataRuns : LoadAndLock(c, id)
    \/ \E c \in Solo, status \in {StatusBuilding, StatusSuccess} :
            AdvanceNode(c, 1, status, <<>>, FALSE)
    \/ \E c \in Solo, status \in Statuses \ {StatusFail}, infos \in InfosInputs :
            UpdateRun(c, status, infos, cl[c].run.Tags, cl[c].run.Workflow.Def)
    \/ \E c \in Solo, id \in 1..MaxDataRuns,
          status \in {StatusBuilding, StatusStopped} : SetStatus(c, id, status)
    \/ \E c \in Solo : Commit(c)
    \/ \E c \in Solo : Rollback(c)

SpecStatus == Init /\ [][NextStatus]_vars

\* History: one caller creates runs of both workflows, advances and retries
\* their nodes, and loads the runs through every selector.
NextHistory ==
    \/ \E c \in Solo, w \in Workflows : TriggerRun(c, w, MaxDataRuns)
    \/ \E c \in Solo : CreateRunInsert(c, <<>>)
    \/ \E c \in Solo, id \in 1..MaxDataRuns : LoadAndLock(c, id)
    \/ \E c \in Solo, node \in Nodes, status \in {StatusBuilding, StatusSuccess} :
            AdvanceNode(c, node, status, <<>>, FALSE)
    \/ \E c \in Solo : Commit(c)
    \/ \E c \in Solo, pk \in ProjectKeys, name \in WorkflowNames :
            DoLoadLastRun(c, pk, name)
    \/ \E c \in Solo, pk \in ProjectKeys, name \in WorkflowNames,
          number \in 1..MaxDataRuns : DoLoadRun(c, pk, name, number)
    \/ \E c \in Solo, pk \in ProjectKeys, id \in 1..MaxDataRuns :
            DoLoadRunByIDAndProjectKey(c, pk, id)
    \/ \E c \in Solo, id \in 1..MaxDataRuns : DoLoadRunByID(c, id)
    \/ \E c \in Solo : DoLoadPostGet(c)
    \/ \E c \in Solo : DoLoadNodeRuns(c)
    \/ \E c \in Solo : DoLoadNodeRunPostGet(c)
    \/ \E c \in Solo : DoLoadTags(c)

SpecHistory == Init /\ [][NextHistory]_vars

\* Snapshot: the live definition is edited while callers create runs,
\* advance them and persist them with the workflow content they choose.
NextSnapshot ==
    \/ \E d \in Defs : EditWorkflow(1, d)
    \/ \E c \in Workers : TriggerRun(c, 1, MaxDataRuns)
    \/ \E c \in Workers : CreateRunInsert(c, <<>>)
    \/ \E c \in Workers, id \in 1..MaxDataRuns : LoadAndLock(c, id)
    \/ \E c \in Workers, status \in {StatusBuilding, StatusSuccess} :
            AdvanceNode(c, 1, status, <<>>, FALSE)
    \/ \E c \in Workers, d \in Defs :
            UpdateRun(c, cl[c].run.Status, cl[c].run.Infos, cl[c].run.Tags, d)
    \/ \E c \in Workers : Commit(c)
    \/ \E c \in Workers : Rollback(c)
    \/ \E c \in Workers, id \in 1..MaxDataRuns : DoLoadRunByID(c, id)
    \/ \E c \in Workers : DoLoadPostGet(c)
    \/ \E c \in Workers : DoLoadNodeRuns(c)
    \/ \E c \in Workers : DoLoadNodeRunPostGet(c)
    \/ \E c \in Workers : DoLoadTags(c)

SpecSnapshot == Init /\ [][NextSnapshot]_vars

\* Tags: one caller creates runs with the tags of their trigger and persists
\* them again with the tag list it chooses.
TagInputs ==
    {<<>>, <<Tag("branch", "main")>>, <<Tag("branch", "dev")>>,
     <<Tag("branch", "main"), Tag("branch", "dev")>>,
     <<Tag("branch", "main"), Tag("branch", "main")>>,
     <<[WorkflowRunID |-> MaxAllocs, Tag |-> "branch", Value |-> "dev"]>>}

NextTags ==
    \/ \E c \in Solo, w \in Workflows : TriggerRun(c, w, MaxDataRuns)
    \/ \E c \in Solo, tags \in TagInputs : CreateRunInsert(c, tags)
    \/ \E c \in Solo, id \in 1..MaxDataRuns : LoadAndLock(c, id)
    \/ \E c \in Solo, status \in {StatusBuilding, StatusSuccess} :
            AdvanceNode(c, 1, status, <<>>, FALSE)
    \/ \E c \in Solo, tags \in TagInputs :
            UpdateRun(c, cl[c].run.Status, cl[c].run.Infos, tags,
                      cl[c].run.Workflow.Def)
    \/ \E c \in Solo : Commit(c)
    \/ \E c \in Solo : Rollback(c)
    \/ \E c \in Solo, id \in 1..MaxDataRuns : DoLoadRunByID(c, id)
    \/ \E c \in Solo : DoLoadPostGet(c)
    \/ \E c \in Solo : DoLoadNodeRuns(c)
    \/ \E c \in Solo : DoLoadNodeRunPostGet(c)
    \/ \E c \in Solo : DoLoadTags(c)

SpecTags == Init /\ [][NextTags]_vars

\* The numbers of the runs of workflow w: those stored and those of the
\* CreateRun calls in flight between allocation and insert.
StoredNumbers(w) ==
    SelectSeq(db.runs, LAMBDA r : r.workflow_id = w)
InFlight(w) ==
    {c \in Clients : cl[c].pc = "numbered" /\ cl[c].run.WorkflowID = w}
AllocsOf(w) == SelectSeq(allocs, LAMBDA a : a.workflow = w)

\* C1: the runs of one workflow, stored or being created by concurrent
\* CreateRun calls, carry pairwise distinct run numbers.
RunNumbersDistinct ==
    \A w \in Workflows :
        LET stored == StoredNumbers(w)
        IN  /\ \A i, j \in 1..Len(stored) : i # j => stored[i].num # stored[j].num
            /\ \A c, d \in InFlight(w) : c # d => cl[c].run.Number # cl[d].run.Number
            /\ \A c \in InFlight(w), i \in 1..Len(stored) :
                   cl[c].run.Number # stored[i].num

\* Three CreateRun calls of one workflow are in flight at once, each with its number.
WitnessConcurrentCreateRun ==
    \E w \in Workflows : Cardinality(InFlight(w)) >= 3

\* C2: the numbers handed out for one workflow are 1, 2, ... in allocation
\* order (strictly increasing from 1; two triggers of a fresh workflow get
\* exactly 1 and 2), and the sequence of a workflow counts only its own
\* allocations.
RunNumbersIncreasing ==
    \A w \in Workflows :
        LET a == AllocsOf(w)
        IN  /\ \A i, j \in 1..Len(a) : i < j => a[i].num < a[j].num
            /\ a # <<>> => a[1].num = 1
            /\ Len(a) = 2 => {a[1].num, a[2].num} = {1, 2}
            /\ sequences[w] = Len(a)

\* Workflow 1 was triggered twice by concurrent callers after workflow 2 was
\* triggered: its two numbers are in flight together.
WitnessTwoTriggers ==
    /\ Len(AllocsOf(1)) = 2
    /\ Len(AllocsOf(2)) = 1
    /\ allocs[1].workflow = 2
    /\ Cardinality(InFlight(1)) = 2

\* C3: at most one transaction at a time has come back from
\* loadAndLockRunByID with a given run and not yet committed or rolled back;
\* it is the one the lock of the row is recorded for.
LockExclusive ==
    \A c \in Clients :
        cl[c].pc = "locked" =>
            /\ locks[cl[c].rid] = c
            /\ \A d \in Clients \ {c} :
                   cl[d].pc = "locked" => cl[d].rid # cl[c].rid

\* One transaction holds the lock of a run while another one was refused it.
WitnessLockHeldAndRefused ==
    \E c, d \in Clients :
        /\ cl[c].pc = "locked"
        /\ cl[d].op = "loadAndLockRunByID" /\ cl[d].res = "LockConflict"

\* C4: loadAndLockRunByID on a run whose lock another transaction holds ends
\* in that very step with LockConflict: the caller is not left waiting, the
\* holder still holds the lock and has not committed, and no table changes.
ConflictReturnsAtOnce ==
    [][\A c \in Clients, id \in RunIDs :
          (/\ id <= Len(db.runs)
           /\ locks[id] \notin {0, c}
           /\ LoadAndLock(c, id))
          => /\ cl'[c].pc = "idle"
             /\ cl'[c].res = "LockConflict"
             /\ cl'[c].run = ZeroRun
             /\ db' = db
             /\ locks' = locks
             /\ cl'[locks[id]] = cl[locks[id]]
             /\ cl'[locks[id]].pc = "locked"]_vars

\* A caller was refused the lock of a run while the holder has written to the
\* run and not committed yet.
WitnessRefusedBeforeCommit ==
    \E c, d \in Clients :
        /\ cl[c].pc = "locked" /\ cl[c].pend.has
        /\ cl[c].pend.row # db.runs[cl[c].rid]
        /\ cl[d].pc = "idle" /\ cl[d].res = "LockConflict"

HasErrorInfo(infos) == \E i \in 1..Len(infos.elems) : infos.elems[i].IsError

\* C5: when updateWorkflowRun has persisted a run whose infos hold an error
\* entry, the status it wrote to the row is Fail, whatever status its caller
\* had put in the run and whatever the node runs of the run are.
ErrorInfoForcesFail ==
    \A c \in Clients :
        (/\ cl[c].pc = "locked"
         /\ cl[c].op \in {"updateWorkflowRun", "AdvanceNode"}
         /\ HasErrorInfo(cl[c].run.Infos))
        => /\ cl[c].pend.has
           /\ cl[c].pend.row.status = StatusFail
           /\ cl[c].run.Status = StatusFail

\* A run whose only node run is a success was persisted by a caller that had
\* set its status to Success and given it an error info.
WitnessErrorInfoOverSuccess ==
    \E c \in Clients :
        /\ cl[c].pc = "locked" /\ cl[c].op = "updateWorkflowRun"
        /\ cl[c].arg = StatusSuccess
        /\ HasErrorInfo(cl[c].run.Infos)
        /\ cl[c].pend.row.status = StatusFail
        /\ Len(cl[c].pend.nrs) = 1
        /\ cl[c].pend.nrs[1].status = StatusSuccess

RunData(D, id) ==
    [row |-> D.runs[id],
     nrs |-> SelectSeq(D.nodeRuns, LAMBDA n : n.workflow_run_id = id),
     tags |-> SelectSeq(D.tags, LAMBDA t : t.workflow_run_id = id)]

\* C6: a run whose stored status is terminal is never changed again (status,
\* node runs, infos, tags, snapshot), and AdvanceNode on a terminal run ends
\* with ValidationError.
TerminalRunsAreFinal ==
    [][/\ \A id \in 1..Len(db.runs) :
              db.runs[id].status \in TerminalStatuses
              => RunData(db', id) = RunData(db, id)
       /\ \A c \in Clients :
              (/\ cl[c].pc = "locked"
               /\ cl[c].run.Status \in TerminalStatuses
               /\ cl'[c].op = "AdvanceNode")
              => cl'[c].res = "ValidationError" /\ db' = db]_vars

Descending(s) == \A i \in 1..(Len(s) - 1) : s[i].SubNumber > s[i + 1].SubNumber

\* The rows of workflow_node_run of run id and node k, by position in the table.
StoredNodeRunRows(D, id, k) ==
    {i \in 1..Len(D.nodeRuns) :
        D.nodeRuns[i].workflow_run_id = id /\ D.nodeRuns[i].workflow_node_id = k}

\* The loaded run holds, for each node with stored node runs and for no
\* other, all of that node's stored node runs and nothing else, latest first.
ExactHistory(D, run) ==
    /\ DOMAIN run.WorkflowNodeRuns =
           {k \in Nodes : StoredNodeRunRows(D, run.ID, k) # {}}
    /\ \A k \in DOMAIN run.WorkflowNodeRuns :
           LET s == run.WorkflowNodeRuns[k]
               rows == StoredNodeRunRows(D, run.ID, k)
           IN  /\ Descending(s)
               /\ Len(s) = Cardinality(rows)
               /\ {s[i] : i \in 1..Len(s)} =
                      {WorkflowNodeRun(D.nodeRuns[i]) : i \in rows}

\* What every selector returns on tables D, for every argument.
LoadResults(D) ==
    {LoadLastRun(D, pk, name) : pk \in ProjectKeys, name \in WorkflowNames}
    \cup {LoadRun(D, a[1], a[2], a[3]) :
             a \in ProjectKeys \X WorkflowNames \X RunIDs}
    \cup {LoadRunByIDAndProjectKey(D, pk, id) : pk \in ProjectKeys, id \in RunIDs}
    \cup {LoadRunByID(D, id) : id \in RunIDs}
    \cup {loadAndLockRunByID(D, [r \in RunIDs |-> 0], 1, id) : id \in RunIDs}

LoadOps ==
    {"LoadLastRun", "LoadRun", "LoadRunByIDAndProjectKey", "LoadRunByID",
     "loadAndLockRunByID"}

\* C7: whatever the stored node runs, every load selector returns each
\* node's node runs sorted by sub-number strictly descending, and they are
\* exactly the stored node runs of that run and node.
NodeRunsLoadedDescending ==
    /\ \A g \in LoadResults(db) : g.err = "" => ExactHistory(db, g.run)
    /\ \A c \in Clients :
           /\ \A g \in LoadResults(View(c)) : g.err = "" => ExactHistory(View(c), g.run)
           /\ (cl[c].op \in LoadOps /\ cl[c].res = "ok") =>
                  \A k \in DOMAIN cl[c].run.WorkflowNodeRuns :
                      Descending(cl[c].run.WorkflowNodeRuns[k])

\* LoadLastRun has returned a run whose node 1 was retried: its node runs
\* come back as sub-numbers 1, 0 although the table holds 0 before 1.
WitnessRetriedNodeLoaded ==
    \E c \in Clients :
        /\ cl[c].op = "LoadLastRun" /\ cl[c].res = "ok"
        /\ 1 \in DOMAIN cl[c].run.WorkflowNodeRuns
        /\ Len(cl[c].run.WorkflowNodeRuns[1]) = 2
        /\ cl[c].run.WorkflowNodeRuns[1][1].SubNumber = 1
        /\ cl[c].run.WorkflowNodeRuns[1][2].SubNumber = 0
        /\ \E i, j \in 1..Len(db.nodeRuns) :
               /\ i < j
               /\ db.nodeRuns[i].workflow_node_id = 1 /\ db.nodeRuns[i].sub_num = 0
               /\ db.nodeRuns[j].workflow_node_id = 1 /\ db.nodeRuns[j].sub_num = 1

\* C8: the stored workflow snapshot of a run never changes once the run is
\* created, whatever is persisted later and however the live workflow is edited.
SnapshotImmutable ==
    [][\A id \in 1..Len(db.runs) :
          db'.runs[id].workflow = db.runs[id].workflow]_vars

StoredTags(D, id) == SelectSeq(D.tags, LAMBDA t : t.workflow_run_id = id)
TagRows(id, tags) == [i \in 1..Len(tags) |-> RunTag(id, tags[i])]

\* A step in which the transaction of c persists the run it has locked.
Persists(c) ==
    /\ cl[c].pc = "locked" /\ cl'[c].pc = "locked"
    /\ cl'[c].writes = cl[c].writes + 1
    /\ cl'[c].op \in {"updateWorkflowRun", "AdvanceNode"}

\* C9: after a run is persisted its stored tags are exactly the tags passed
\* in, with none of the former ones left; persisting it with the tags it
\* has already stored leaves the stored tags as they were, with no row added.
TagReplacementExact ==
    [][\A c \in Clients :
          Persists(c) =>
              LET before == StoredTags(View(c), cl[c].rid)
                  passed == TagRows(cl[c].rid, cl'[c].run.Tags)
              IN  /\ cl'[c].pend.tags = passed
                  /\ passed = before => cl'[c].pend.tags = before]_vars

\* A run that has stored tags was persisted again with the same tags.
WitnessSameTagsTwice ==
    \E c \in Clients :
        /\ cl[c].pc = "locked" /\ cl[c].op = "updateWorkflowRun"
        /\ cl[c].pend.tags # <<>>
        /\ cl[c].pend.tags = StoredTags(db, cl[c].rid)

\* C10: no run has two stored tag rows with the same key and value.
NoDuplicateTagRows ==
    \A i, j \in 1..Len(db.tags) : i # j => db.tags[i] # db.tags[j]

\* ------------------------------------------------- blobs: store and load
\* Round trip: one caller creates a run and persists it with the infos (the
\* nil list and the empty list among them) and the workflow content it
\* chooses, whenever it does so, commits, and loads it again.
RoundTripInfos ==
    {NilInfos, InfoList(<<>>), InfoList(<<Info(FALSE)>>),
     InfoList(<<Info(FALSE), Info(TRUE)>>)}
RoundTripWorkflows ==
    {ZeroWorkflow, WorkflowDef(1, 2), WorkflowDef(2, 1),
     [ZeroWorkflow EXCEPT !.Name = WorkflowName(1)]}

NextRoundTrip ==
    \/ Tick
    \/ \E c \in Solo : TriggerRun(c, 1, 1)
    \/ \E c \in Solo : CreateRunInsertWith(c, <<>>, "")
    \/ \E c \in Solo : LoadAndLock(c, 1)
    \/ \E c \in Solo, workflow \in RoundTripWorkflows, infos \in RoundTripInfos :
            UpdateRunAs(c, [cl[c].run EXCEPT !.Workflow = workflow, !.Infos = infos], "")
    \/ \E c \in Solo : Commit(c)
    \/ \E c \in Solo : Rollback(c)
    \/ \E c \in Solo : DoLoadRunByID(c, 1)
    \/ \E c \in Solo : DoLoadPostGet(c)
    \/ \E c \in Solo : DoLoadNodeRuns(c)
    \/ \E c \in Solo : DoLoadTags(c)

SpecRoundTrip == Init /\ [][NextRoundTrip]_vars

\* The run the tables D hold under id loads with the workflow and the infos
\* of run w.
LoadsBlobsOf(D, id, w) ==
    LET got == LoadRunByID(D, id)
    IN  /\ got.err = ""
        /\ got.run.Workflow = w.Workflow
        /\ got.run.Infos = w.Infos

AggregateTagInputs ==
    {<<>>, <<Tag("branch", "main")>>, <<Tag("branch", "dev")>>,
     <<Tag("branch", "main"), Tag("author", "a")>>,
     <<Tag("branch", "a,b")>>}

NextAggregate ==
    \/ \E c \in Solo, w \in Workflows : TriggerRun(c, w, MaxRuns)
    \/ \E c \in Solo, tags \in AggregateTagInputs : CreateRunInsert(c, tags)
    \/ \E c \in Solo, pk \in ProjectKeys, name \in WorkflowNames :
            DoGetTagsAndValue(c, pk, name)

SpecAggregate == Init /\ [][NextAggregate]_vars

\* The tag rows of the runs of the workflow of project pk.
TagRowsOfWorkflow(pk) ==
    SelectSeq(db.tags, LAMBDA t :
        ProjectKeyOf(db.runs[t.workflow_run_id].workflow_id) = pk)

\* C12: GetTagsAndValue returns exactly the tag keys present on the runs of
\* the workflow, each with exactly the values that key has on those runs
\* (and on no other workflow's), ascending and without repetition, whatever
\* the values are, those holding a ',' included.
AggregateValuesExact ==
    \A c \in Clients :
        cl[c].op = "GetTagsAndValue" =>
            LET rows == TagRowsOfWorkflow(cl[c].arg)
                rmap == cl[c].run
            IN  /\ DOMAIN rmap = {rows[i].tag : i \in 1..Len(rows)}
                /\ \A k \in DOMAIN rmap :
                       /\ {rmap[k][i] : i \in 1..Len(rmap[k])} =
                              {rows[i].value : i \in {j \in 1..Len(rows) : rows[j].tag = k}}
                       /\ \A i, j \in 1..Len(rmap[k]) :
                              i < j => ValueRank(rmap[k][i]) < ValueRank(rmap[k][j])

\* The same without the values that hold a ',': what GetTagsAndValue gets right.
AggregateValuesExactNoSeparator ==
    (\A i \in 1..Len(db.tags) : Len(TagValueText(db.tags[i].value)) = 1)
    => AggregateValuesExact

\* Two runs of one workflow tagged branch=main, then branch=dev, and the
\* aggregation gave branch -> dev, main.
WitnessBranchDevMain ==
    \E c \in Clients :
        /\ cl[c].op = "GetTagsAndValue"
        /\ Len(db.tags) = 2 /\ db.tags[1].value = "main"
        /\ DOMAIN cl[c].run = {"branch"}
        /\ cl[c].run["branch"] = <<"dev", "main">>

\* ------------------------------------------------- status recomputation
\* The status the rule gives for run id from its stored infos and node runs,
\* without and with a requested stop.
RecomputedStatuses(D, id) ==
    LET infos == UnmarshalInfos(D.runs[id].infos).val
        nrs == SelectSeq(D.nodeRuns, LAMBDA n : n.workflow_run_id = id)
        sts == [i \in 1..Len(nrs) |-> nrs[i].status]
    IN  {RecomputeStatus(infos, sts, stop) : stop \in BOOLEAN}

\* No committed run has an error info entry and a status other than Fail.
ErrorInfoMeansFail ==
    \A id \in 1..Len(db.runs) :
        HasErrorInfo(UnmarshalInfos(db.runs[id].infos).val)
        => db.runs[id].status = StatusFail

\* C13: every step that changes a stored run leaves its stored status equal
\* to the status recomputed from its infos and node runs (error info: Fail;
\* else a non-terminal node run: Building; else a failed node run: Fail; else
\* Stopped on a requested stop; else Success); and no committed run has an
\* error info entry and another status than Fail.
StatusAlwaysRecomputed ==
    /\ [][\A id \in 1..Len(db.runs) :
              RunData(db', id) # RunData(db, id)
              => db'.runs[id].status \in RecomputedStatuses(db', id)]_vars
    /\ []ErrorInfoMeansFail

\* ------------------------------------------------------ node-run history
\* The sub-numbers of the n node runs stored for a node of a run are
\* 0 .. n-1, each once, and the run loads with them reading n-1, ..., 0.
DenseHistory(D) ==
    \A id \in 1..Len(D.runs), k \in Nodes :
        LET rows == StoredNodeRunRows(D, id, k)
            n == Cardinality(rows)
            got == LoadRunByID(D, id)
        IN  /\ {D.nodeRuns[i].sub_num : i \in rows} = 0..(n - 1)
            /\ n > 0 =>
                   /\ got.err = ""
                   /\ k \in DOMAIN got.run.WorkflowNodeRuns
                   /\ [i \in 1..Len(got.run.WorkflowNodeRuns[k]) |->
                          got.run.WorkflowNodeRuns[k][i].SubNumber]
                      = [i \in 1..n |-> n - i]

\* C14: the node runs of a node in a run carry the sub-numbers 0, 1, ..
\* without gap or repetition (a new attempt gets 0, or the highest so far
\* plus one), a stored node run is never removed, and a run loads with each
\* node's sub-numbers reading k, k-1, ..., 0.
NodeRunHistoryDense ==
    /\ [](DenseHistory(db) /\ \A c \in Clients : DenseHistory(View(c)))
    /\ [][\A i \in 1..Len(db.nodeRuns) :
              \E j \in 1..Len(db'.nodeRuns) :
                  /\ db'.nodeRuns[j].workflow_run_id = db.nodeRuns[i].workflow_run_id
                  /\ db'.nodeRuns[j].workflow_node_id = db.nodeRuns[i].workflow_node_id
                  /\ db'.nodeRuns[j].sub_num = db.nodeRuns[i].sub_num]_vars

\* LoadRun (by number) has returned a run whose node was retried once while
\* another node was building: the node's attempts come back as 1, 0.
WitnessRetryLoadsOneZero ==
    \E c \in Clients, k \in Nodes :
        /\ cl[c].op = "LoadRun" /\ cl[c].res = "ok"
        /\ DOMAIN cl[c].run.WorkflowNodeRuns = Nodes
        /\ [i \in 1..Len(cl[c].run.WorkflowNodeRuns[k]) |->
               cl[c].run.WorkflowNodeRuns[k][i].SubNumber] = <<1, 0>>

\* ------------------------------------------------------ storage failures
\* Failures: one caller creates, loads, lists and persists runs while one
\* query of each operation may fail.
LoadRunsFailures == {"", "count", "page", "tags"}
InsertFailures == {"", "insert run", "update blobs", "delete tags", "insert tags"}
UpdateFailures == {"", "update run", "update blobs", "delete tags", "insert tags"}
LoadFailures ==
    {"", "select run", "select blobs", "select node runs",
     "select node runs: no rows", "node run postget", "select tags"}
FailureTagInputs == {<<>>, <<Tag("branch", "main")>>}

NextFailures ==
    \/ \E c \in Solo : TriggerRun(c, 1, MaxDataRuns)
    \/ \E c \in Solo, tags \in FailureTagInputs, fail \in InsertFailures :
            CreateRunInsertWith(c, tags, fail)
    \/ \E c \in Solo, id \in 1..MaxDataRuns : LoadAndLock(c, id)
    \/ \E c \in Solo :
            db.nodeRuns = <<>> /\ AdvanceNode(c, 1, StatusBuilding, <<>>, FALSE)
    \/ \E c \in Solo, tags \in FailureTagInputs, fail \in UpdateFailures :
            UpdateRunWith(c, tags, fail)
    \/ \E c \in Solo : Commit(c)
    \/ \E c \in Solo : Rollback(c)
    \/ \E c \in Solo, id \in 1..MaxDataRuns, fail \in LoadFailures :
            DoLoadRunByIDWith(c, id, fail)
    \/ \E c \in Solo : DoLoadPostGet(c)
    \/ \E c \in Solo : DoLoadNodeRuns(c)
    \/ \E c \in Solo : DoLoadNodeRunPostGet(c)
    \/ \E c \in Solo : DoLoadTags(c)
    \/ \E c \in Solo, pk \in ProjectKeys, name \in WorkflowNames,
          offset \in 0..1, limit \in 1..MaxRuns, fail \in LoadRunsFailures :
            DoLoadRunsCount(c, pk, name, offset, limit, fail)
    \/ \E c \in Solo : DoLoadRunsPage(c)
    \/ \E c \in Solo : DoLoadRunsTags(c)

SpecFailures == Init /\ [][NextFailures]_vars

\* The step c takes issues the query that fails.
FailingQueryIssued(c) ==
    LET f == cl'[c].arg
    IN  /\ cl'[c] # cl[c]
        /\ \/ cl[c].pc = "idle" /\ cl'[c].op = "LoadRuns" /\ f = "count"
           \/ cl[c].pc = "counted" /\ f = "page"
           \/ cl[c].pc = "paged" /\ f = "tags"
           \/ cl[c].pc = "idle" /\ cl'[c].op = "LoadRunByID" /\ f = "select run"
           \/ cl[c].pc = "selected" /\ f = "select blobs"
           \/ cl[c].pc = "hooked" /\ f = "select node runs"
           \/ cl[c].pc = "nodehooks" /\ f = "node run postget"
           \/ cl[c].pc = "noderuns" /\ f = "select tags"
           \/ /\ \/ cl[c].pc = "numbered" /\ cl'[c].op = "insertWorkflowRun"
                 \/ cl[c].pc = "locked" /\ cl'[c].op = "updateWorkflowRun"
              /\ \/ f \in {"insert run", "update run", "update blobs", "delete tags"}
                 \/ f = "insert tags" /\ Len(cl'[c].run.Tags) > 0

PageQueryFails(c) == cl[c].pc = "counted" /\ cl[c].arg = "page"

\* C15: an operation of the store one of whose queries fails returns at
\* that query, with an error and no result.
StorageFailuresSurface ==
    [][\A c \in Clients :
          FailingQueryIssued(c)
          => cl'[c].pc \in {"idle", "failed"} /\ cl'[c].res = StorageError]_vars

\* The same for every query but the page query of LoadRuns.
StorageFailuresSurfaceButPage ==
    [][\A c \in Clients :
          (FailingQueryIssued(c) /\ ~PageQueryFails(c))
          => cl'[c].pc \in {"idle", "failed"} /\ cl'[c].res = StorageError]_vars

\* ------------------------------------------------------------ stored blobs
\* Rows as the program may find them: one run whose blobs were written by
\* any version of the program or not at all (SQL NULL, JSON null, an empty or
\* a filled object or array, a JSON text of another shape).
StoredWorkflowBlobs ==
    {NullBlob, JSONNull, ObjectBlob({}, ZeroWorkflow), MarshalWorkflow(ZeroWorkflow),
     ObjectBlob({"Name", "legacy"}, [ZeroWorkflow EXCEPT !.Name = WorkflowName(1)]),
     MarshalWorkflow(WorkflowDef(1, 1)), MarshalInfos(InfoList(<<>>)), JSONString}
StoredInfosBlobs ==
    {NullBlob, JSONNull, MarshalInfos(InfoList(<<>>)),
     MarshalInfos(InfoList(<<Info(FALSE)>>)), ArrayBlob(<<JSONObject({}, ZeroInfo)>>),
     MarshalWorkflow(ZeroWorkflow), JSONString}

InitStored ==
    /\ \E w \in StoredWorkflowBlobs, i \in StoredInfosBlobs :
           db = [EmptyDB EXCEPT !.runs =
                    <<[id |-> 1, project_id |-> ProjectOf(1), workflow_id |-> 1,
                       num |-> 1, start |-> 1, last_modified |-> 0,
                       status |-> StatusBuilding, workflow |-> w, infos |-> i]>>]
    /\ clock = 1
    /\ sequences = [w \in Workflows |-> IF w = 1 THEN 1 ELSE 0]
    /\ locks = [id \in RunIDs |-> 0]
    /\ live = [w \in Workflows |-> 1]
    /\ allocs = <<[workflow |-> 1, num |-> 1]>>
    /\ cl = [c \in Clients |-> Idle("", "", ZeroRun)]

NextStored ==
    \/ \E c \in Solo, pk \in ProjectKeys, name \in WorkflowNames :
            DoLoadLastRun(c, pk, name)
    \/ \E c \in Solo, pk \in ProjectKeys, name \in WorkflowNames :
            DoLoadRun(c, pk, name, 1)
    \/ \E c \in Solo, pk \in ProjectKeys : DoLoadRunByIDAndProjectKey(c, pk, 1)
    \/ \E c \in Solo : DoLoadRunByID(c, 1)
    \/ \E c \in Solo : DoLoadPostGet(c)
    \/ \E c \in Solo : DoLoadNodeRuns(c)
    \/ \E c \in Solo : DoLoadTags(c)
    \/ \E c \in Solo : LoadAndLock(c, 1)
    \/ \E c \in Solo :
            UpdateRun(c, cl[c].run.Status, cl[c].run.Infos, cl[c].run.Tags,
                      cl[c].run.Workflow.Def)
    \/ \E c \in Solo : Commit(c)
    \/ \E c \in Solo : Rollback(c)

SpecStored == InitStored /\ [][NextStored]_vars

\* A blob that is absent (SQL NULL) or empty (JSON null, or the empty value
\* of the kind the column holds); a blob of another shape than the column holds.
AbsentOrEmpty(b, kind) ==
    \/ ~b.valid
    \/ b.kind = "null"
    \/ b.kind = kind /\ b.obj = ZeroWorkflow /\ b.arr = <<>>
Malformed(b, kind) == b.valid /\ b.kind \notin {"null", kind}

\* C16: a run whose workflow or infos blob is absent or empty loads, with the
\* default workflow or no infos in its place; a run one of whose blobs is
\* set but malformed does not load: the selector returns a serialization
\* error and no run.
StoredBlobsDecoded ==
    \A c \in Clients :
        (cl[c].op \in LoadOps /\ cl[c].res \notin {"", "NotFound"}) =>
            LET w == db.runs[1].workflow
                i == db.runs[1].infos
            IN  IF Malformed(w, "object") \/ Malformed(i, "array")
                THEN /\ cl[c].res = "SerializationError"
                     /\ cl[c].run = ZeroRun
                     /\ cl[c].pc \in {"idle", "failed"}
                ELSE /\ cl[c].res = "ok"
                     /\ cl[c].run.ID = 1
                     /\ cl[c].run.Workflow =
                            IF AbsentOrEmpty(w, "object") THEN ZeroWorkflow ELSE w.obj
                     /\ cl[c].run.Infos.elems =
                            IF AbsentOrEmpty(i, "array") THEN <<>>
                            ELSE [k \in 1..Len(i.arr) |-> i.arr[k].obj]

\* A run whose workflow blob is SQL NULL and whose infos blob is JSON null
\* was loaded by number.
WitnessAbsentBlobsLoaded ==
    \E c \in Clients :
        /\ cl[c].op = "LoadRun" /\ cl[c].res = "ok"
        /\ ~db.runs[1].workflow.valid
        /\ db.runs[1].infos = JSONNull
        /\ cl[c].run.Workflow = ZeroWorkflow /\ cl[c].run.Infos = NilInfos

\* A run whose infos blob is a JSON object was refused by loadAndLockRunByID.
WitnessMalformedBlobRefused ==
    \E c \in Clients :
        /\ cl[c].op = "loadAndLockRunByID" /\ cl[c].res = "SerializationError"
        /\ db.runs[1].infos.kind = "object"

\* ------------------------------------------------- reads and the run lock
\* Reads: one caller creates runs, locks and persists them with another
\* status, infos and tags, commits or rolls back, while another one loads and
\* lists them.
Reader == {2}

NextReads ==
    \/ \E c \in Solo : TriggerRun(c, 1, MaxDataRuns)
    \/ \E c \in Solo : CreateRunInsert(c, <<>>)
    \/ \E c \in Solo, id \in 1..MaxDataRuns : LoadAndLock(c, id)
    \/ \E c \in Solo :
            UpdateRun(c, StatusSuccess, InfoList(<<Info(FALSE)>>),
                      <<Tag("branch", "main")>>, cl[c].run.Workflow.Def)
    \/ \E c \in Solo : AdvanceNode(c, 1, StatusBuilding, <<>>, FALSE)
    \/ \E c \in Solo : Commit(c)
    \/ \E c \in Solo : Rollback(c)
    \/ \E c \in Reader, id \in 1..MaxDataRuns : DoLoadRunByID(c, id)
    \/ \E c \in Reader, number \in 1..MaxDataRuns :
            DoLoadRun(c, ProjectKeyOf(1), WorkflowName(1), number)
    \/ \E c \in Reader : DoLoadPostGet(c)
    \/ \E c \in Reader : DoLoadNodeRuns(c)
    \/ \E c \in Reader : DoLoadNodeRunPostGet(c)
    \/ \E c \in Reader : DoLoadTags(c)
    \/ \E c \in Reader :
            DoLoadRunsCount(c, ProjectKeyOf(1), WorkflowName(1), 0, MaxDataRuns, "")
    \/ \E c \in Reader : DoLoadRunsPage(c)
    \/ \E c \in Reader : DoLoadRunsTags(c)

SpecReads == Init /\ [][NextReads]_vars

\* The loaded run is run id as the tables D hold it.
SameAsStored(run, D, id) ==
    /\ run.ID = id
    /\ run.Number = D.runs[id].num
    /\ run.Status = D.runs[id].status
    /\ MarshalWorkflow(run.Workflow) = D.runs[id].workflow
    /\ MarshalInfos(run.Infos) = D.runs[id].infos
    /\ TagRows(id, run.Tags) = StoredTags(D, id)
    /\ ExactHistory(D, run)

\* The listed run, which carries the columns and the tags only.
ListedAsStored(run, D) ==
    /\ run.ID \in 1..Len(D.runs)
    /\ run.Status = D.runs[run.ID].status
    /\ TagRows(run.ID, run.Tags) = StoredTags(D, run.ID)

\* The statements of a read c has in progress, and the one that ends it.
ReadStep(c) ==
    /\ cl'[c] # cl[c]
    /\ \/ cl[c].pc \in {"selected", "hooked", "nodehooks", "noderuns",
                       "counted", "paged"}
       \/ cl[c].pc = "idle" /\ cl'[c].pc \in {"selected", "counted"}
ReadReturns(c) ==
    /\ cl[c].pc \in {"noderuns", "paged"}
    /\ cl'[c].pc = "idle"

\* The row query of a read of a stored run selects the run, whoever holds
\* its lock.
ReadsNeverRefused ==
    [][\A c \in Clients, id \in 1..Len(db.runs) :
          (\/ DoLoadRunByID(c, id)
           \/ \E projectkey \in RowProjectKey(db.runs[id]),
                 workflowname \in RowWorkflowName(db.runs[id]) :
                  DoLoadRun(c, projectkey, workflowname, db.runs[id].num))
          => cl'[c].pc = "selected" /\ cl'[c].run.ID = id]_vars

\* Each statement of a read goes through whoever holds the lock of the run
\* and reads what is committed when it runs: nothing of what a holder has
\* written and not committed.
StatementsSeeCommitted ==
    [][\A c \in Clients :
          ReadStep(c) =>
            /\ cl'[c].res \in {"", "ok"}
            /\ cl'[c].pc = "selected" =>
                   /\ cl'[c].run.ID \in 1..Len(db.runs)
                   /\ cl'[c].run = RunOfRow(db.runs[cl'[c].run.ID])
            /\ cl'[c].pc = "hooked" =>
                   /\ MarshalWorkflow(cl'[c].run.Workflow) = db.runs[cl[c].run.ID].workflow
                   /\ MarshalInfos(cl'[c].run.Infos) = db.runs[cl[c].run.ID].infos
            /\ cl[c].pc = "hooked" =>
                   selectNodeRuns(db, cl[c].run) =
                       IF cl'[c].pc = "nodehooks" THEN cl'[c].dbNodeRuns ELSE <<>>
            /\ cl[c].pc = "nodehooks" =>
                   LET n == WorkflowNodeRun(Head(cl[c].dbNodeRuns))
                       s == cl'[c].run.WorkflowNodeRuns[n.WorkflowNodeID]
                   IN  \E i \in 1..Len(s) : s[i] = n
            /\ (cl[c].pc = "noderuns" /\ cl'[c].pc = "idle") =>
                   TagRows(cl[c].run.ID, cl'[c].run.Tags) = StoredTags(db, cl[c].run.ID)
            /\ (cl[c].pc = "counted" /\ cl'[c].pc = "paged") =>
                   \A i \in 1..Len(cl'[c].run.runs) :
                       cl'[c].run.runs[i] \in {db.runs[k] : k \in 1..Len(db.runs)}
            /\ cl[c].pc = "paged" =>
                   LET i == Len(cl[c].run.wruns) + 1
                       id == cl[c].run.runs[i].id
                       wr == IF cl'[c].pc = "idle" THEN cl'[c].run.got.runs[i]
                             ELSE cl'[c].run.wruns[i]
                   IN  TagRows(id, wr.Tags) = StoredTags(db, id)]_vars

\* What a read returns is the run, or the listed runs, as tables D hold them.
ReturnsAsStored(c, D) ==
    IF cl[c].pc = "noderuns"
    THEN /\ cl[c].run.ID \in 1..Len(D.runs)
         /\ SameAsStored(cl'[c].run, D, cl[c].run.ID)
    ELSE \A i \in 1..Len(cl'[c].run.got.runs) :
             ListedAsStored(cl'[c].run.got.runs[i], D)

\* C17 (as stated): a read of a stored run (LoadRunByID, LoadRun, LoadRuns)
\* is never refused or held up by the lock of the run, and what it returns
\* is the run as last committed: as it was committed when the read began or
\* as it is committed when the read returns, never what a holder of the
\* lock has written and not committed.
ReadsSeeCommitted ==
    /\ ReadsNeverRefused
    /\ [][\A c \in Clients :
          /\ ReadStep(c) => cl'[c].res \in {"", "ok"}
          /\ ReadReturns(c) =>
                 \/ ReturnsAsStored(c, cl[c].seen)
                 \/ ReturnsAsStored(c, db)]_vars

\* C17 (amended): no statement of a read is refused or held up by the lock
\* of the run, and each one reads what is committed when it runs; a read
\* during which nothing is committed returns the run as last committed.
ReadsSeeCommittedStatements ==
    /\ ReadsNeverRefused
    /\ StatementsSeeCommitted
    /\ [][\A c \in Clients :
              (ReadReturns(c) /\ cl[c].seen = db) => ReturnsAsStored(c, db)]_vars

\* A caller has loaded a run while another one held its lock and had written
\* another status and tags to it without committing: it got the committed ones.
WitnessReadDuringMutation ==
    \E c, d \in Clients :
        /\ cl[d].pc = "locked" /\ cl[d].pend.has
        /\ cl[d].pend.row.status # db.runs[cl[d].rid].status
        /\ cl[d].pend.tags # StoredTags(db, cl[d].rid)
        /\ cl[c].op = "LoadRunByID" /\ cl[c].res = "ok"
        /\ cl[c].run.ID = cl[d].rid
        /\ cl[c].run.Status = db.runs[cl[d].rid].status
        /\ cl[c].run.Tags = <<>>

\* A caller has loaded a run during the read of which its mutation was
\* committed: the status is the one of before, the tags those of after.
WitnessTornRead ==
    \E c \in Clients :
        /\ cl[c].op = "LoadRunByID" /\ cl[c].res = "ok"
        /\ cl[c].run.Status = StatusBuilding
        /\ cl[c].run.Tags # <<>>
        /\ db.runs[cl[c].run.ID].status = StatusSuccess

\* ------------------------------------------------------ release of the lock
\* Retries: runs are created; callers lock them, persist them as Building runs,
\* commit or roll back, and try again when they were refused. Every
\* transaction that holds a lock completes, and every caller keeps trying.
NextRetries ==
    \/ \E c \in Solo : TriggerRun(c, 1, MaxRuns)
    \/ \E c \in Solo : CreateRunInsert(c, <<>>)
    \/ \E c \in Workers, id \in 1..MaxRuns : LoadAndLock(c, id)
    \/ \E c \in Workers :
            UpdateRun(c, StatusBuilding, InfoList(<<Info(FALSE)>>),
                      cl[c].run.Tags, cl[c].run.Workflow.Def)
    \/ \E c \in Workers : Commit(c)
    \/ \E c \in Workers : Rollback(c)

FairRetries ==
    \A c \in Workers :
        /\ WF_vars(Commit(c) \/ Rollback(c))
        /\ \A id \in 1..MaxRuns : WF_vars(LoadAndLock(c, id))

SpecRetries == Init /\ [][NextRetries]_vars /\ FairRetries

\* The transaction that completes gives up the lock it holds.
CompletionReleases ==
    [][\A c \in Clients :
          (cl[c].pc = "locked" /\ cl'[c].pc = "idle")
          => locks'[cl[c].rid] = 0]_vars

\* No run stays locked for ever.
NoLockForEver == \A id \in RunIDs : (locks[id] # 0) ~> (locks[id] = 0)

\* C18 (as stated): the lock of a run is released when the transaction that
\* holds it completes, by commit or otherwise, no run stays locked for ever,
\* and a caller that was refused the lock of a Building run and keeps
\* retrying eventually holds it, every holder's transaction completing.
RetryEventuallyAcquires ==
    /\ CompletionReleases
    /\ NoLockForEver
    /\ \A c \in Workers : (cl[c].res = "LockConflict") ~> (cl[c].pc = "locked")

\* C18 (amended): the lock of a run is released when the transaction that
\* holds it completes, no run stays locked for ever, and a retry made while
\* no transaction holds the lock of the run acquires it.
RetryAcquiresFreeLock ==
    /\ CompletionReleases
    /\ NoLockForEver
    /\ [][\A c \in Clients, id \in 1..Len(db.runs) :
              (locks[id] = 0 /\ LoadAndLock(c, id))
              => (cl'[c].pc = "locked" /\ locks'[id] = c)]_vars

\* A caller holds the lock of a run that an earlier transaction has
\* persisted and committed, while another caller has been refused it.
WitnessLockTakenAfterCommit ==
    \E c, d \in Clients :
        /\ cl[c].pc = "locked"
        /\ db.runs[cl[c].rid].infos.arr # <<>>
        /\ cl[d].res = "LockConflict"

\* ------------------------------------------------------------ pagination
\* Paging: callers create runs of both workflows, concurrently, while
\* another one lists the runs of a workflow, a query of which may fail.
NextPaging ==
    \/ \E c \in Workers, w \in Workflows : TriggerRun(c, w, MaxRuns)
    \/ \E c \in Workers : CreateRunInsert(c, <<>>)
    \/ \E c \in Reader, pk \in ProjectKeys, offset \in 0..1, limit \in 1..MaxRuns,
          fail \in LoadRunsFailures :
            DoLoadRunsCount(c, pk, WorkflowName(1), offset, limit, fail)
    \/ \E c \in Reader : DoLoadRunsPage(c)
    \/ \E c \in Reader : DoLoadRunsTags(c)

SpecPaging == Init /\ [][NextPaging]_vars

\* runs is the page of call q on tables D: the runs of the workflow from the
\* (offset+1)-th latest start on, at most limit of them, each as stored.
IsPage(runs, D, q) ==
    LET all == RunsOfWorkflow(D, q.projectkey, q.workflowname)
        left == IF Len(all) > q.offset THEN Len(all) - q.offset ELSE 0
    IN  /\ Len(runs) = IF left < q.limit THEN left ELSE q.limit
        /\ \A i \in 1..Len(runs) :
               /\ ListedAsStored(runs[i], D)
               /\ Cardinality({k \in 1..Len(all) : all[k].start > runs[i].Start})
                      = q.offset + i - 1
               /\ \E k \in 1..Len(all) : all[k].id = runs[i].ID

\* The step in which LoadRuns returns to c, and the tables that were
\* committed when its page query ran (or would have run).
LoadRunsReturns(c) ==
    /\ cl'[c] # cl[c]
    /\ cl[c].pc \in {"idle", "counted", "paged"}
    /\ cl'[c].pc = "idle" /\ cl'[c].op = "LoadRuns"
PageTables(c) == IF cl[c].pc = "paged" THEN cl[c].seen ELSE db

\* The count and the page LoadRuns returns are those of one committed state:
\* the one of its count query or the one of its page query.
CountAndPageOfOneState ==
    [][\A c \in Clients :
          (LoadRunsReturns(c) /\ cl'[c].arg = "")
          => LET q == cl'[c].run.call
                 got == cl'[c].run.got
             IN  \E D \in {q.seen, PageTables(c)} :
                     /\ got.count = Len(RunsOfWorkflow(D, q.projectkey, q.workflowname))
                     /\ IsPage(got.runs, D, q)]_vars

\* C19 (as stated): LoadRuns returns the offset and the limit it was given,
\* the number of runs of the workflow and the page of at most limit runs
\* after the offset latest ones, by start time descending; for a workflow
\* without runs the page is empty; count and page are those of one
\* committed state, also when a run is created between the two queries.
LoadRunsPageConsistent ==
    /\ [][\A c \in Clients :
              (LoadRunsReturns(c) /\ cl'[c].arg = "")
              => LET q == cl'[c].run.call
                     got == cl'[c].run.got
                 IN  /\ got.err = NoError
                     /\ got.offset = q.offset /\ got.limit = q.limit]_vars
    /\ CountAndPageOfOneState

\* C19 (amended): LoadRuns returns (nil, 0, 0, 0) and no error when its count
\* query finds no run of the workflow; otherwise the offset and the limit it
\* was given, the number of runs its count query found, and the page, by
\* start time descending, of the runs committed when its page query runs.
\* A failing count or tag query gives the error and (nil, 0, 0, 0), a
\* failing page query (nil, 0, 0, 0) and no error.
LoadRunsPageAsQueried ==
    [][\A c \in Clients :
          LoadRunsReturns(c)
          => LET q == cl'[c].run.call
                 f == cl'[c].arg
                 got == cl'[c].run.got
                 n == Len(RunsOfWorkflow(q.seen, q.projectkey, q.workflowname))
                 m == Len(RunsOfWorkflow(PageTables(c), q.projectkey, q.workflowname))
             IN  IF f = "count" THEN got = NoRuns(StorageError)
                 ELSE IF n = 0 \/ f = "page" THEN got = NoRuns(NoError)
                 ELSE IF f = "tags" /\ m > q.offset THEN got = NoRuns(StorageError)
                 ELSE /\ got.err = NoError
                      /\ got.offset = q.offset /\ got.limit = q.limit
                      /\ got.count = n
                      /\ IsPage(got.runs, PageTables(c), q)]_vars

\* LoadRuns has returned two runs of a workflow, the one started last first
\* although it was stored first, and a count of one: the second run was
\* stored between its two queries.
WitnessRunCreatedBetweenQueries ==
    \E c \in Clients :
        /\ cl[c].op = "LoadRuns" /\ cl[c].res = "ok"
        /\ cl[c].run.got.count = 1
        /\ Len(cl[c].run.got.runs) = 2
        /\ cl[c].run.got.runs[1].ID < cl[c].run.got.runs[2].ID
        /\ cl[c].run.got.runs[1].Start > cl[c].run.got.runs[2].Start

\* ------------------------------------------------------------ write frame
\* Frame: a caller creates runs with tags, locks them, advances a node,
\* persists them with the infos and tags it chooses and an edited workflow
\* content, or sets their status by hand, inside a transaction or not.
FrameTagInputs == {<<>>, <<Tag("branch", "main"), Tag("branch", "dev")>>}

FrameInfosInputs == {NilInfos, InfoList(<<Info(FALSE), Info(TRUE)>>)}

NextFrame ==
    \/ \E c \in Solo : TriggerRun(c, 1, MaxRuns)
    \/ \E c \in Solo, tags \in FrameTagInputs \ {<<>>} : CreateRunInsert(c, tags)
    \/ \E c \in Solo, id \in 1..MaxRuns : LoadAndLock(c, id)
    \/ \E c \in Solo : db.nodeRuns = <<>> /\ AdvanceNode(c, 1, StatusBuilding, <<>>, FALSE)
    \/ \E c \in Solo, infos \in FrameInfosInputs :
            UpdateRun(c, StatusSuccess, infos, <<>>, 2)
    \/ \E c \in Solo, id \in 1..MaxRuns : SetStatus(c, id, StatusStopped)
    \/ \E c \in Solo : Commit(c)
    \/ \E c \in Solo : Rollback(c)

SpecFrame == Init /\ [][NextFrame]_vars

TagRowsOfRun(D, id) == SelectSeq(D.tags, LAMBDA t : t.workflow_run_id = id)

NodeRunRowsOfRun(D, id) == SelectSeq(D.nodeRuns, LAMBDA n : n.workflow_run_id = id)

\* The row, the blobs and the tag rows of run w.ID in D are those of the
\* in-memory run w.
StoredAs(D, w) ==
    /\ w.ID \in 1..Len(D.runs)
    /\ LET row == D.runs[w.ID]
       IN  /\ row.id = w.ID /\ row.workflow_id = w.WorkflowID
           /\ row.num = w.Number /\ row.start = w.Start
           /\ row.last_modified = w.LastModified
           /\ row.status = w.Status
           /\ row.workflow = MarshalWorkflow(w.Workflow)
           /\ row.infos = MarshalInfos(w.Infos)
    /\ TagRowsOfRun(D, w.ID)
           = [i \in 1..Len(w.Tags) |->
                 [workflow_run_id |-> w.ID, tag |-> w.Tags[i].Tag,
                  value |-> w.Tags[i].Value]]

\* Run id is in E what it is in D: row, blobs, tags and node runs.
SameRun(D, E, id) ==
    /\ (id \in 1..Len(D.runs)) = (id \in 1..Len(E.runs))
    /\ id \in 1..Len(D.runs) => D.runs[id] = E.runs[id]
    /\ TagRowsOfRun(D, id) = TagRowsOfRun(E, id)
    /\ NodeRunRowsOfRun(D, id) = NodeRunRowsOfRun(E, id)

InsertStoresRun ==
    \A c \in Clients, tags \in FrameTagInputs :
        CreateRunInsert(c, tags)
        => LET id == Len(db.runs) + 1
           IN  /\ StoredAs(db', [cl[c].run EXCEPT !.ID = id, !.Tags = tags])
               /\ \A o \in RunIDs \ {id} : SameRun(db, db', o)

UpdateStoresRun ==
    \A c \in Clients :
        (Commit(c) /\ cl[c].op = "updateWorkflowRun")
        => /\ StoredAs(db', cl[c].run)
           /\ NodeRunRowsOfRun(db', cl[c].rid) = NodeRunRowsOfRun(View(c), cl[c].rid)
           /\ \A o \in RunIDs \ {cl[c].rid} : SameRun(db, db', o)

StatusOnlyChanged ==
    \A c \in Clients, id \in 1..MaxRuns, status \in Statuses :
        SetStatus(c, id, status)
        => LET D == View(c)
               E == View(c)'
           IN  /\ Len(E.runs) = Len(D.runs)
               /\ id \in 1..Len(D.runs)
                      => E.runs[id] = [D.runs[id] EXCEPT !.status = status,
                                                         !.last_modified = clock]
               /\ TagRowsOfRun(E, id) = TagRowsOfRun(D, id)
               /\ NodeRunRowsOfRun(E, id) = NodeRunRowsOfRun(D, id)
               /\ \A o \in RunIDs \ {id} : SameRun(D, E, o)

\* C20: a committed insertWorkflowRun or updateWorkflowRun leaves the row,
\* the blobs and the tag rows of the run equal to the columns, the encoded
\* Workflow and Infos and the Tags of the in-memory run, and every other run
\* as it was; UpdateWorkflowRunStatus changes the status and the
\* last-modified time of the run with the id and nothing else of it or of
\* any other run.
WritesKeepRunInStep ==
    [][InsertStoresRun /\ UpdateStoresRun /\ StatusOnlyChanged]_vars

\* A second run exists, tagged and with a node run; the first one has been
\* stopped by hand, which set its last-modified time, and the second
\* persisted with an error info and no tag.
WitnessStatusSetAndRunUpdated ==
    /\ Len(db.runs) = 2
    /\ db.runs[1].status = StatusStopped
    /\ db.runs[1].last_modified = clock
    /\ db.runs[2].status = StatusFail
    /\ db.runs[2].infos = MarshalInfos(InfoList(<<Info(FALSE), Info(TRUE)>>))
    /\ Len(TagRowsOfRun(db, 1)) = 2
    /\ TagRowsOfRun(db, 2) = <<>>
    /\ NodeRunRowsOfRun(db, 1) # <<>>
====
